---- MODULE Spec2Model ----
(***************************************************************************)
(* A model of flog: the query parser (internal/filter/query.go), the       *)
(* matcher (internal/filter/filter.go, convert.go) and the filtering       *)
(* pipelines (ParallelFilter, SequentialFilter).                           *)
(*                                                                         *)
(* Go strings are modelled as sequences of one-character strings, so that  *)
(* parsing and rendering work character by character as the code does.     *)
(* Positions are 0-based as in the code: At(s, pos) is s[pos].             *)
(***************************************************************************)
EXTENDS Integers, Sequences, FiniteSets, TLC

(***************************************************************************)
(* Characters and strings                                                  *)
(***************************************************************************)
At(s, pos) == s[pos + 1]

\* s[lo:hi] of Go
Slice(s, lo, hi) == SubSeq(s, lo + 1, hi)

Digits == <<"0", "1", "2", "3", "4", "5", "6", "7", "8", "9">>

DigitChars == {Digits[i] : i \in 1..Len(Digits)}

DigitVal(c) == (CHOOSE i \in 1..Len(Digits) : Digits[i] = c) - 1

LowerLetters == {"a", "b", "l", "m", "s", "w", "x"}

UpperLetters == {"A", "W", "X"}

\* unicode.IsLetter, unicode.IsDigit and unicode.IsSpace on the model's characters
IsLetter(c) == c \in LowerLetters \cup UpperLetters

IsDigit(c) == c \in DigitChars

IsSpace(c) == c \in {" ", "\t", "\n", "\r"}

\* strings.ToLower, one character
LowerChar(c) ==
  CASE c = "A" -> "a"
    [] c = "W" -> "w"
    [] c = "X" -> "x"
    [] OTHER -> c

ToLower(s) == [i \in 1..Len(s) |-> LowerChar(s[i])]

\* The byte order of the model's characters (ASCII), for Go's string "<".
ByteOrder ==
  <<"\t", "\n", "\r", " ", "!", "\"", "'", "(", ")", "*", "+", ",", "-", ".",
    "0", "1", "2", "3", "4", "5", "6", "7", "8", "9", ":", "<", "=", ">", "?",
    "A", "W", "X", "[", "\\", "]", "_", "a", "b", "e", "f", "l", "m", "p", "r", "s", "t", "u", "w", "x",
    "|", "~">>

CharCode(c) == CHOOSE i \in 1..Len(ByteOrder) : ByteOrder[i] = c

RECURSIVE StrLess(_, _)
StrLess(a, b) ==
  IF Len(b) = 0 THEN FALSE
  ELSE IF Len(a) = 0 THEN TRUE
  ELSE IF a[1] = b[1] THEN StrLess(Tail(a), Tail(b))
  ELSE CharCode(a[1]) < CharCode(b[1])

\* strings.TrimSpace
RECURSIVE TrimLeft(_)
TrimLeft(s) == IF Len(s) > 0 /\ IsSpace(s[1]) THEN TrimLeft(Tail(s)) ELSE s

RECURSIVE TrimRight(_)
TrimRight(s) ==
  IF Len(s) > 0 /\ IsSpace(s[Len(s)]) THEN TrimRight(SubSeq(s, 1, Len(s) - 1)) ELSE s

\* the query taken as it is, blanks included
TrimSpace_Keep(s) == s

TrimSpace(s) == TrimRight(TrimLeft(s))

(***************************************************************************)
(* Dynamic values (Go's any): a tag with a string or a number.  Numbers of  *)
(* the model are integers; a float64 holds an integral value.               *)
(***************************************************************************)
StrV(s) == [t |-> "string", s |-> s, n |-> 0]

IntV(n) == [t |-> "int64", s |-> <<>>, n |-> n]

FloatV(n) == [t |-> "float64", s |-> <<>>, n |-> n]

BoolV(b) == [t |-> "bool", s |-> <<>>, n |-> IF b THEN 1 ELSE 0]

\* map[string]any{key: val} with a string val; s holds what "%v" prints of it
MapV(key, val) ==
  [t |-> "map", s |-> <<"m", "a", "p", "[">> \o key \o <<":">> \o val \o <<"]">>, n |-> 0]

NilV == [t |-> "nil", s |-> <<>>, n |-> 0]

(***************************************************************************)
(* internal/filter/convert.go                                              *)
(***************************************************************************)
\* strconv.Itoa / strconv.FormatInt(val, 10)
RECURSIVE NatToStr(_)
NatToStr(n) ==
  IF n < 10 THEN <<Digits[n + 1]>> ELSE NatToStr(n \div 10) \o <<Digits[(n % 10) + 1]>>

FormatInt(n) == IF n < 0 THEN <<"-">> \o NatToStr(-n) ELSE NatToStr(n)

RECURSIVE StripZeros(_)
StripZeros(s) ==
  IF Len(s) > 1 /\ s[Len(s)] = "0" THEN StripZeros(SubSeq(s, 1, Len(s) - 1)) ELSE s

\* strconv.FormatFloat(val, 'g', -1, 64) of an integral value: the shortest
\* decimal, in exponent form once the decimal exponent reaches 21 > x >= 6
\* ("%e is used if the exponent is less than -4 or greater than or equal to
\* the precision; if precision was the shortest possible, use precision 6").
FormatFloat(n) ==
  LET a == IF n < 0 THEN -n ELSE n
      ds == NatToStr(a)
      exp == Len(ds) - 1
      sign == IF n < 0 THEN <<"-">> ELSE <<>>
      mant == StripZeros(ds)
      frac == IF Len(mant) > 1 THEN <<".">> \o Tail(mant) ELSE <<>>
      e2 == IF exp < 10 THEN <<"0">> \o NatToStr(exp) ELSE NatToStr(exp)
  IN IF exp < 6 THEN sign \o ds
     ELSE sign \o <<mant[1]>> \o frac \o <<"e", "+">> \o e2

toString(v) ==
  CASE v.t = "nil" -> <<>>
    [] v.t = "string" -> v.s
    [] v.t = "int64" -> FormatInt(v.n)
    [] v.t = "float64" -> FormatFloat(v.n)
    [] v.t = "bool" -> IF v.n = 1 THEN <<"t", "r", "u", "e">> ELSE <<"f", "a", "l", "s", "e">>
    [] v.t = "map" -> v.s
    [] OTHER -> <<>>

RECURSIVE DigitsToNat(_)
DigitsToNat(s) ==
  IF Len(s) = 0 THEN 0 ELSE DigitsToNat(SubSeq(s, 1, Len(s) - 1)) * 10 + DigitVal(s[Len(s)])

AllDigits(s) == Len(s) > 0 /\ \A i \in 1..Len(s) : IsDigit(s[i])

\* strconv.ParseInt(s, 10, 64): an optional sign and decimal digits.  The
\* model's strings are short, so the 64-bit range is never left.
ParseInt(s) ==
  LET signed == Len(s) > 0 /\ s[1] \in {"+", "-"}
      body == IF signed THEN Tail(s) ELSE s
  IN IF AllDigits(body)
       THEN [ok |-> TRUE, n |-> IF signed /\ s[1] = "-" THEN -DigitsToNat(body) ELSE DigitsToNat(body)]
       ELSE [ok |-> FALSE, n |-> 0]

\* strconv.ParseFloat(s, 64) on the strings the model can form: they hold no
\* ".", exponent, hexadecimal, "inf" or "nan" spelling, which leaves the
\* signed decimal integers.
ParseFloat(s) == ParseInt(s)

toFloat64(v) ==
  CASE v.t = "nil" -> [ok |-> FALSE, n |-> 0]
    [] v.t = "float64" -> [ok |-> TRUE, n |-> v.n]
    [] v.t = "int64" -> [ok |-> TRUE, n |-> v.n]
    [] v.t = "string" -> ParseFloat(v.s)
    [] OTHER -> [ok |-> FALSE, n |-> 0]

equalFold(a, b) == ToLower(a) = ToLower(b)

containsString(s, substr) ==
  \E i \in 0..(Len(s) - Len(substr)) : Slice(s, i, i + Len(substr)) = substr

containsFold(s, substr) == containsString(ToLower(s), ToLower(substr))

ParseValue(s) ==
  LET i == ParseInt(s)
      f == ParseFloat(s)
      low == ToLower(s)
  IN IF i.ok THEN IntV(i.n)
     ELSE IF f.ok THEN FloatV(f.n)
     ELSE IF low = <<"t", "r", "u", "e">> THEN BoolV(TRUE)
     ELSE IF low = <<"f", "a", "l", "s", "e">> THEN BoolV(FALSE)
     ELSE IF low = <<"n", "u", "l", "l">> \/ low = <<"n", "i", "l">> THEN NilV
     ELSE StrV(s)

(***************************************************************************)
(* internal/filter/filter.go: conditions, chains and the Matcher           *)
(***************************************************************************)
OpEq == "OpEq"

OpNe == "OpNe"

OpGt == "OpGt"

OpLt == "OpLt"

OpGte == "OpGte"

OpLte == "OpLte"

OpRegex == "OpRegex"

OpContains == "OpContains"

OpExists == "OpExists"

LogicAnd == "LogicAnd"

LogicOr == "LogicOr"

\* Condition{Field, Operator, Value, IgnoreCase}
NewCondition(field, op, value) ==
  [Field |-> field, Operator |-> op, Value |-> value, IgnoreCase |-> FALSE]

\* *FilterChain: isNil marks the nil pointer.
NewFilterChain(logic, conditions) ==
  [isNil |-> FALSE, Conditions |-> conditions, Logic |-> logic, SubChains |-> <<>>]

NilChain == [isNil |-> TRUE, Conditions |-> <<>>, Logic |-> LogicAnd, SubChains |-> <<>>]

Add(fc, c) == [fc EXCEPT !.Conditions = Append(@, c)]

AddSubChain(fc, sub) == [fc EXCEPT !.SubChains = Append(@, sub)]

\* Matcher{regexCache, ignoreCase}.  evaluated is a history of the conditions
\* handed to evaluateCondition, in order; the code keeps no such field.
NewMatcher(ignoreCase) == [regexCache |-> <<>>, ignoreCase |-> ignoreCase, evaluated |-> <<>>]

\* The regular expressions of the model: literal characters and groups.  A
\* pattern compiles iff its parentheses balance; it matches a string iff the
\* string holds the pattern's literal text (the groups removed), compared
\* case-insensitively under the (?i) flag.
RECURSIVE ParenBalance(_, _)
ParenBalance(p, depth) ==
  IF depth < 0 THEN FALSE
  ELSE IF Len(p) = 0 THEN depth = 0
  ELSE IF p[1] = "(" THEN ParenBalance(Tail(p), depth + 1)
  ELSE IF p[1] = ")" THEN ParenBalance(Tail(p), depth - 1)
  ELSE ParenBalance(Tail(p), depth)

Literal(p) == SelectSeq(p, LAMBDA c : c \notin {"(", ")"})

\* regexp.Compile(pattern), or regexp.Compile("(?i)" + pattern) when fold
RegexpCompile(pattern, fold) ==
  IF ParenBalance(pattern, 0)
    THEN [err |-> FALSE, re |-> [lit |-> Literal(pattern), fold |-> fold]]
    ELSE [err |-> TRUE, re |-> [lit |-> <<>>, fold |-> fold]]

MatchString(re, s) == IF re.fold THEN containsFold(s, re.lit) ELSE containsString(s, re.lit)

\* sync.Map as a function from pattern text to compiled expression
CacheHas(cache, pattern) == pattern \in DOMAIN cache

CacheStore(cache, pattern, re) ==
  [k \in (DOMAIN cache) \cup {pattern} |-> IF k = pattern THEN re ELSE cache[k]]

EmptyCache == [k \in {} |-> 0]

\* equal that tells the types apart: a number never equals a string
equal_Typed(a, b, ignoreCase) ==
  /\ a.t = b.t
  /\ IF ignoreCase THEN equalFold(toString(a), toString(b)) ELSE toString(a) = toString(b)

equal(a, b, ignoreCase) ==
  IF ignoreCase THEN equalFold(toString(a), toString(b)) ELSE toString(a) = toString(b)

compareNumbers(aNum, bNum) == IF aNum < bNum THEN -1 ELSE IF aNum > bNum THEN 1 ELSE 0

compareStrings(aStr, bStr) ==
  IF StrLess(aStr, bStr) THEN -1 ELSE IF StrLess(bStr, aStr) THEN 1 ELSE 0

\* compare without the numeric attempt: always the string renderings
compareCoerced_StringsOnly(a, b, aNum, bNum) == compareStrings(toString(a), toString(b))

compareCoerced(a, b, aNum, bNum) ==
  IF aNum.ok /\ bNum.ok
    THEN compareNumbers(aNum.n, bNum.n)
    ELSE compareStrings(toString(a), toString(b))

compare(a, b) == compareCoerced(a, b, toFloat64(a), toFloat64(b))

contains(fieldValue, searchValue, ignoreCase) ==
  IF ignoreCase
    THEN containsFold(toString(fieldValue), toString(searchValue))
    ELSE containsString(toString(fieldValue), toString(searchValue))

\* the cache miss that remembers on the Matcher how the expression was
\* compiled: a Match call then changes more of the Matcher than its cache
matchCompiled_FoldKept(m, fieldValue, pattern, c) ==
  IF c.err
    THEN [res |-> FALSE, m |-> m]
    ELSE [res |-> MatchString(c.re, toString(fieldValue)),
          m |-> [m EXCEPT !.regexCache = CacheStore(@, pattern, c.re), !.ignoreCase = TRUE]]

\* the cache miss that drops err: the expression is stored and matched even
\* when regexp.Compile failed
matchCompiled_ErrDropped(m, fieldValue, pattern, c) ==
  [res |-> MatchString(c.re, toString(fieldValue)),
   m |-> [m EXCEPT !.regexCache = CacheStore(@, pattern, c.re)]]

\* Every evaluation returns [res, m]: the boolean and the Matcher afterwards.
\* matchRegex on a cache miss: c is what regexp.Compile returned
matchCompiled(m, fieldValue, pattern, c) ==
  IF c.err
    THEN [res |-> FALSE, m |-> m]
    ELSE [res |-> MatchString(c.re, toString(fieldValue)),
          m |-> [m EXCEPT !.regexCache = CacheStore(@, pattern, c.re)]]

\* matchRegex on a cache that tells case-sensitivity apart: a cached
\* expression is used only when it was compiled the way the condition asks
matchPattern_CaseKeyed(m, fieldValue, cond, pattern) ==
  IF CacheHas(m.regexCache, pattern)
       /\ m.regexCache[pattern].fold = (cond.IgnoreCase \/ m.ignoreCase)
    THEN [res |-> MatchString(m.regexCache[pattern], toString(fieldValue)), m |-> m]
    ELSE matchCompiled(m, fieldValue, pattern,
                       RegexpCompile(pattern, cond.IgnoreCase \/ m.ignoreCase))

matchPattern(m, fieldValue, cond, pattern) ==
  IF CacheHas(m.regexCache, pattern)
    THEN [res |-> MatchString(m.regexCache[pattern], toString(fieldValue)), m |-> m]
    ELSE matchCompiled(m, fieldValue, pattern,
                       RegexpCompile(pattern, cond.IgnoreCase \/ m.ignoreCase))

matchRegex(m, fieldValue, cond) == matchPattern(m, fieldValue, cond, toString(cond.Value))

compareValues(m, fieldValue, cond) ==
  CASE cond.Operator = OpEq ->
         [res |-> equal(fieldValue, cond.Value, cond.IgnoreCase \/ m.ignoreCase), m |-> m]
    [] cond.Operator = OpNe ->
         [res |-> ~equal(fieldValue, cond.Value, cond.IgnoreCase \/ m.ignoreCase), m |-> m]
    [] cond.Operator = OpGt -> [res |-> compare(fieldValue, cond.Value) > 0, m |-> m]
    [] cond.Operator = OpLt -> [res |-> compare(fieldValue, cond.Value) < 0, m |-> m]
    [] cond.Operator = OpGte -> [res |-> compare(fieldValue, cond.Value) >= 0, m |-> m]
    [] cond.Operator = OpLte -> [res |-> compare(fieldValue, cond.Value) <= 0, m |-> m]
    [] cond.Operator = OpRegex -> matchRegex(m, fieldValue, cond)
    [] cond.Operator = OpContains ->
         [res |-> contains(fieldValue, cond.Value, cond.IgnoreCase \/ m.ignoreCase), m |-> m]
    [] OTHER -> [res |-> FALSE, m |-> m]

\* evaluateCondition with an existence check that looks at the value: a field
\* stored with a nil value counts as absent
evaluateRecorded_NilAbsent(m, entry, cond) ==
  IF cond.Field \notin DOMAIN entry.Fields \/ entry.Fields[cond.Field].t = "nil"
    THEN [res |-> FALSE, m |-> m]
    ELSE IF cond.Operator = OpExists
      THEN [res |-> TRUE, m |-> m]
      ELSE compareValues(m, entry.Fields[cond.Field], cond)

\* evaluateCondition that hands a missing field to the comparison as nil, so
\* that field != value holds on a record without the field
evaluateRecorded_AbsentAsNil(m, entry, cond) ==
  IF cond.Operator = OpExists
    THEN [res |-> cond.Field \in DOMAIN entry.Fields, m |-> m]
    ELSE IF cond.Field \notin DOMAIN entry.Fields
      THEN compareValues(m, NilV, cond)
      ELSE compareValues(m, entry.Fields[cond.Field], cond)

\* evaluateCondition on the Matcher whose history already holds cond
evaluateRecorded(m, entry, cond) ==
  IF cond.Operator = OpExists
    THEN [res |-> cond.Field \in DOMAIN entry.Fields, m |-> m]
    ELSE IF cond.Field \notin DOMAIN entry.Fields
      THEN [res |-> FALSE, m |-> m]
      ELSE compareValues(m, entry.Fields[cond.Field], cond)

evaluateCondition(m, entry, cond) ==
  evaluateRecorded([m EXCEPT !.evaluated = Append(@, cond)], entry, cond)

\* the loop of evaluateConditions, from the i-th condition on; r is the result
\* of the i-th
RECURSIVE evaluateFrom(_, _, _, _, _)
evaluateStep(r, entry, conditions, logic, i) ==
  IF logic = LogicAnd /\ ~r.res THEN [res |-> FALSE, m |-> r.m]
  ELSE IF logic = LogicOr /\ r.res THEN [res |-> TRUE, m |-> r.m]
  ELSE evaluateFrom(r.m, entry, conditions, logic, i + 1)

evaluateFrom(m, entry, conditions, logic, i) ==
  IF i > Len(conditions)
    THEN [res |-> (logic = LogicAnd), m |-> m]
    ELSE evaluateStep(evaluateCondition(m, entry, conditions[i]), entry, conditions, logic, i)

\* evaluateConditions without the early returns: every condition is evaluated
\* and the results are folded afterwards
RECURSIVE evaluateEvery(_, _, _, _, _, _)
evaluateEveryStep(r, entry, conditions, logic, i, acc) ==
  evaluateEvery(r.m, entry, conditions, logic, i + 1,
                IF logic = LogicAnd THEN acc /\ r.res ELSE acc \/ r.res)

evaluateEvery(m, entry, conditions, logic, i, acc) ==
  IF i > Len(conditions)
    THEN [res |-> acc, m |-> m]
    ELSE evaluateEveryStep(evaluateCondition(m, entry, conditions[i]), entry, conditions,
                           logic, i, acc)

evaluateConditions_NoShortCircuit(m, entry, conditions, logic) ==
  IF Len(conditions) = 0
    THEN [res |-> TRUE, m |-> m]
    ELSE evaluateEvery(m, entry, conditions, logic, 1, logic = LogicAnd)

evaluateConditions(m, entry, conditions, logic) ==
  IF Len(conditions) = 0
    THEN [res |-> TRUE, m |-> m]
    ELSE evaluateFrom(m, entry, conditions, logic, 1)

RECURSIVE Match(_, _, _)
\* the loop of Match over chain.SubChains, from the i-th sub-chain on; r is the
\* result of the i-th
RECURSIVE matchSubChains(_, _, _, _, _)
matchSubStep(r, entry, chain, conditionResult, i) ==
  IF chain.Logic = LogicAnd /\ ~r.res THEN [res |-> FALSE, m |-> r.m]
  ELSE IF chain.Logic = LogicOr /\ r.res THEN [res |-> TRUE, m |-> r.m]
  ELSE matchSubChains(r.m, entry, chain, conditionResult, i + 1)

matchSubChains(m, entry, chain, conditionResult, i) ==
  IF i > Len(chain.SubChains)
    THEN [res |-> conditionResult, m |-> m]
    ELSE matchSubStep(Match(m, entry, chain.SubChains[i]), entry, chain, conditionResult, i)

\* Match after the main conditions: c is what evaluateConditions returned
matchWithConditions(c, entry, chain) ==
  IF Len(chain.SubChains) = 0
    THEN c
    ELSE matchSubChains(c.m, entry, chain, c.res, 1)

\* Match whose guard for the absent or empty chain returns false
Match_EmptyRejects(m, entry, chain) ==
  IF chain.isNil \/ (Len(chain.Conditions) = 0 /\ Len(chain.SubChains) = 0)
    THEN [res |-> FALSE, m |-> m]
    ELSE matchWithConditions(evaluateConditions(m, entry, chain.Conditions, chain.Logic),
                             entry, chain)

Match(m, entry, chain) ==
  IF chain.isNil \/ (Len(chain.Conditions) = 0 /\ Len(chain.SubChains) = 0)
    THEN [res |-> TRUE, m |-> m]
    ELSE matchWithConditions(evaluateConditions(m, entry, chain.Conditions, chain.Logic),
                             entry, chain)

\* parser.LogEntry{Raw, Fields, LineNum}
LogEntry(raw, fields, lineNum) == [Raw |-> raw, Fields |-> fields, LineNum |-> lineNum]

(***************************************************************************)
(* internal/filter/query.go: the QueryParser.  The parser's fields (input, *)
(* pos) are passed in and the position reached is part of every result.    *)
(***************************************************************************)
ErrNil == "nil"

ErrEmptyQuery == "empty query"

ErrInvalidSyntax == "invalid query syntax"

ErrUnclosedParen == "unclosed parenthesis"

ErrInvalidOperator == "invalid operator"

ErrMissingField == "missing field name"

\* Condition{}: the zero value returned beside an error
ZeroCondition == [Field |-> <<>>, Operator |-> OpEq, Value |-> NilV, IgnoreCase |-> FALSE]

RECURSIVE skipWhitespace(_, _)
skipWhitespace(input, pos) ==
  IF pos < Len(input) /\ IsSpace(At(input, pos)) THEN skipWhitespace(input, pos + 1) ELSE pos

IsFieldChar(ch) == IsLetter(ch) \/ IsDigit(ch) \/ ch \in {"_", ".", "[", "]"}

RECURSIVE scanField(_, _)
scanField(input, pos) ==
  IF pos < Len(input) /\ IsFieldChar(At(input, pos)) THEN scanField(input, pos + 1) ELSE pos

parseFieldFrom(input, start, end) == [field |-> Slice(input, start, end), pos |-> end]

parseFieldAt(input, start) == parseFieldFrom(input, start, scanField(input, start))

parseField(input, pos) == parseFieldAt(input, skipWhitespace(input, pos))

\* parseOperator once the whitespace is skipped; twoChar is "" when fewer than
\* two characters are left
parseOperatorAt(input, pos, twoChar) ==
  IF pos >= Len(input) THEN [err |-> ErrInvalidOperator, op |-> OpEq, pos |-> pos]
  ELSE IF twoChar = <<"!", "=">> THEN [err |-> ErrNil, op |-> OpNe, pos |-> pos + 2]
  ELSE IF twoChar = <<">", "=">> THEN [err |-> ErrNil, op |-> OpGte, pos |-> pos + 2]
  ELSE IF twoChar = <<"<", "=">> THEN [err |-> ErrNil, op |-> OpLte, pos |-> pos + 2]
  ELSE IF twoChar = <<"~", "=">> THEN [err |-> ErrNil, op |-> OpRegex, pos |-> pos + 2]
  ELSE IF twoChar = <<"*", "=">> THEN [err |-> ErrNil, op |-> OpContains, pos |-> pos + 2]
  ELSE IF At(input, pos) \in {":", "="} THEN [err |-> ErrNil, op |-> OpEq, pos |-> pos + 1]
  ELSE IF At(input, pos) = ">" THEN [err |-> ErrNil, op |-> OpGt, pos |-> pos + 1]
  ELSE IF At(input, pos) = "<" THEN [err |-> ErrNil, op |-> OpLt, pos |-> pos + 1]
  ELSE [err |-> ErrInvalidOperator, op |-> OpEq, pos |-> pos]

parseOperatorFrom(input, pos) ==
  parseOperatorAt(input, pos, IF pos + 1 < Len(input) THEN Slice(input, pos, pos + 2) ELSE <<>>)

parseOperator(input, pos) == parseOperatorFrom(input, skipWhitespace(input, pos))

\* the loop over a quoted value: up to the closing quote, a backslash skips a character
RECURSIVE scanQuoted(_, _, _)
scanQuoted(input, pos, quote) ==
  IF pos < Len(input) /\ At(input, pos) # quote
    THEN IF At(input, pos) = "\\" /\ pos + 1 < Len(input)
           THEN scanQuoted(input, pos + 2, quote)
           ELSE scanQuoted(input, pos + 1, quote)
    ELSE pos

\* the loop over an unquoted value: up to a delimiter
RECURSIVE scanUnquoted(_, _)
scanUnquoted(input, pos) ==
  IF pos < Len(input) /\ At(input, pos) \notin {",", "|", ")", " ", "\t"}
    THEN scanUnquoted(input, pos + 1)
    ELSE pos

parseQuoted(input, start, end) ==
  [value |-> Slice(input, start, end), pos |-> IF end < Len(input) THEN end + 1 ELSE end]

parseUnquoted(input, start, end) == [value |-> Slice(input, start, end), pos |-> end]

parseValueAt(input, pos) ==
  IF pos >= Len(input) THEN [value |-> <<>>, pos |-> pos]
  ELSE IF At(input, pos) \in {"\"", "'"}
    THEN parseQuoted(input, pos + 1, scanQuoted(input, pos + 1, At(input, pos)))
    ELSE parseUnquoted(input, pos, scanUnquoted(input, pos))

parseValue(input, pos) == parseValueAt(input, skipWhitespace(input, pos))

\* parseCondition, statement by statement: each step takes what the earlier
\* statements computed
conditionWithValue(field, op, v) ==
  [err |-> ErrNil, cond |-> NewCondition(field, op, ParseValue(v.value)), pos |-> v.pos]

conditionWithOperator(input, field, op) ==
  IF op.err # ErrNil
    THEN [err |-> op.err, cond |-> ZeroCondition, pos |-> op.pos]
    ELSE conditionWithValue(field, op.op, parseValue(input, op.pos))

conditionAfterField(input, field, pos) ==
  IF pos < Len(input) /\ At(input, pos) = "?"
    THEN [err |-> ErrNil, cond |-> NewCondition(field, OpExists, NilV), pos |-> pos + 1]
    ELSE conditionWithOperator(input, field, parseOperator(input, pos))

conditionWithField(input, f) ==
  IF f.field = <<>>
    THEN [err |-> ErrMissingField, cond |-> ZeroCondition, pos |-> f.pos]
    ELSE conditionAfterField(input, f.field, skipWhitespace(input, f.pos))

parseCondition(input, pos) ==
  conditionWithField(input, parseField(input, skipWhitespace(input, pos)))

\* the loop of parseTerm that looks for the matching ")"
RECURSIVE scanParen(_, _, _)
scanParen(input, pos, depth) ==
  IF pos < Len(input) /\ depth > 0
    THEN IF At(input, pos) = "(" THEN scanParen(input, pos + 1, depth + 1)
         ELSE IF At(input, pos) = ")" THEN scanParen(input, pos + 1, depth - 1)
         ELSE scanParen(input, pos + 1, depth)
    ELSE [pos |-> pos, depth |-> depth]

RECURSIVE parseTerm(_, _)
\* the parenthesized branch of parseTerm: r is what innerParser.parseTerm()
\* returned, pos the position after the ")"
termOfInner(r, pos) ==
  IF r.err # ErrNil
    THEN [err |-> r.err, cond |-> ZeroCondition, pos |-> pos]
    ELSE [err |-> ErrNil, cond |-> r.cond, pos |-> pos]

\* the parenthesized branch that drops the "(" and goes on after the first
\* inner term instead of after the matching ")"
termOfGroup_Transparent(input, start, sc) ==
  IF sc.depth # 0
    THEN [err |-> ErrUnclosedParen, cond |-> ZeroCondition, pos |-> sc.pos]
    ELSE parseCondition(input, start)

\* the parenthesized branch without the check that the scan found the ")"
termOfGroup_Unchecked(input, start, sc) ==
  termOfInner(parseTerm(Slice(input, start, sc.pos - 1), 0), sc.pos)

\* sc is where the scan for the matching ")" ended, start the position after "("
termOfGroup(input, start, sc) ==
  IF sc.depth # 0
    THEN [err |-> ErrUnclosedParen, cond |-> ZeroCondition, pos |-> sc.pos]
    ELSE termOfInner(parseTerm(Slice(input, start, sc.pos - 1), 0), sc.pos)

parseTermAt(input, pos) ==
  IF pos >= Len(input) THEN [err |-> ErrInvalidSyntax, cond |-> ZeroCondition, pos |-> pos]
  ELSE IF At(input, pos) = "("
    THEN termOfGroup(input, pos + 1, scanParen(input, pos + 1, 1))
    ELSE parseCondition(input, pos)

parseTerm(input, pos) == parseTermAt(input, skipWhitespace(input, pos))

\* the loop of parseOrExpr over the "|"-separated terms after the first
RECURSIVE orTerms(_, _, _)
orTermsAppend(input, chain, term) ==
  IF term.err # ErrNil
    THEN [err |-> term.err, chain |-> NilChain, pos |-> term.pos]
    ELSE orTerms(input, term.pos, Add(chain, term.cond))

orTermsAt(input, pos, chain) ==
  IF pos >= Len(input) \/ At(input, pos) # "|"
    THEN [err |-> ErrNil, chain |-> chain, pos |-> pos]
    ELSE orTermsAppend(input, chain, parseTerm(input, pos + 1))

orTerms(input, pos, chain) ==
  IF pos < Len(input)
    THEN orTermsAt(input, skipWhitespace(input, pos), chain)
    ELSE [err |-> ErrNil, chain |-> chain, pos |-> pos]

\* parseOrExpr that returns the OR chain even when it holds one condition
orExprResult_KeepOr(r) == r

\* the end of parseOrExpr: a single condition comes back as an AND chain
orExprResult(r) ==
  IF r.err = ErrNil /\ Len(r.chain.Conditions) = 1
    THEN [err |-> ErrNil, chain |-> NewFilterChain(LogicAnd, <<r.chain.Conditions[1]>>), pos |-> r.pos]
    ELSE r

orExprFrom(input, first) ==
  IF first.err # ErrNil
    THEN [err |-> first.err, chain |-> NilChain, pos |-> first.pos]
    ELSE orExprResult(orTerms(input, first.pos, NewFilterChain(LogicOr, <<first.cond>>)))

parseOrExpr(input, pos) == orExprFrom(input, parseTerm(input, pos))

\* parseAndExpr that takes the conditions of every term into the root chain
mergeTerm_Flatten(chain, term) == [chain EXCEPT !.Conditions = @ \o term.Conditions]

\* how parseAndExpr takes a parsed term into the root chain
mergeTerm(chain, term) ==
  IF Len(term.SubChains) = 0 /\ Len(term.Conditions) = 1 /\ term.Logic = LogicAnd
    THEN [chain EXCEPT !.Conditions = @ \o term.Conditions]
    ELSE IF term.Logic = LogicOr \/ Len(term.SubChains) > 0
      THEN [chain EXCEPT !.SubChains = Append(@, term)]
      ELSE [chain EXCEPT !.Conditions = @ \o term.Conditions]

\* the loop of parseAndExpr over the ","-separated terms after the first
RECURSIVE andTerms(_, _, _)
andTermsAppend(input, chain, term) ==
  IF term.err # ErrNil
    THEN [err |-> term.err, chain |-> NilChain, pos |-> term.pos]
    ELSE andTerms(input, term.pos, mergeTerm(chain, term.chain))

andTermsAt(input, pos, chain) ==
  IF pos >= Len(input) \/ At(input, pos) # ","
    THEN [err |-> ErrNil, chain |-> chain, pos |-> pos]
    ELSE andTermsAppend(input, chain, parseOrExpr(input, pos + 1))

andTerms(input, pos, chain) ==
  IF pos < Len(input)
    THEN andTermsAt(input, skipWhitespace(input, pos), chain)
    ELSE [err |-> ErrNil, chain |-> chain, pos |-> pos]

andExprFrom(input, first) ==
  IF first.err # ErrNil
    THEN [err |-> first.err, chain |-> NilChain, pos |-> first.pos]
    ELSE andTerms(input, first.pos, mergeTerm(NewFilterChain(LogicAnd, <<>>), first.chain))

parseAndExpr(input, pos) == andExprFrom(input, parseOrExpr(input, pos))

parseExpression(input, pos) == parseAndExpr(input, pos)

\* QueryParser.Parse: [err, chain, pos], pos the position the parser stopped at
\* in the trimmed query
ParseTrimmed(q) ==
  IF q = <<>>
    THEN [err |-> ErrEmptyQuery, chain |-> NilChain, pos |-> 0]
    ELSE parseExpression(q, 0)

Parse(query) == ParseTrimmed(TrimSpace(query))

(***************************************************************************)
(* State                                                                   *)
(***************************************************************************)
VARIABLES
  mtChain,      \* the FilterChain handed to Matcher.Match
  mtEntry,      \* the LogEntry of the last Match call
  mtMatcher,    \* the Matcher (regex cache, ignoreCase) after the last call
  mtBefore,     \* the Matcher as the last call found it
  mtResult,     \* what the last Match call returned
  mtCalls,      \* Match calls made on mtMatcher so far
  qTokens,      \* the query string, as the pieces it was typed from
  qPc,          \* "typing", then "parsed" once QueryParser.Parse has returned
  qParsed,      \* what Parse returned: [err, chain, pos]
  chLines,          \* the lines channel: the lines sent and not yet received
  chLinesClosed,    \* close(lines) has happened
  plSent,           \* every line sent on the lines channel so far, in order
  ctxDone,          \* the context is cancelled
  plWorkers,        \* pf.Workers; 1 for the sequential filter's goroutine
  wPc,              \* where each worker goroutine stands
  wLine,            \* line, as the worker received it
  wCurrentLineNum,  \* currentLineNum of the worker
  wEntry,           \* entry, the matched record the worker is about to send
  sharedLineNum,    \* lineNum of Filter
  lineNumMu,        \* lineNumMu: 0 when unlocked, else the worker holding it
  chResults,        \* the results channel
  chResultsClosed,  \* close(results) has happened
  plDelivered,      \* what the consumer has received from results, in order
  plReleased,       \* the entries handed to parser.ReleaseEntry
  plMatcher,        \* pf.matcher / sf.matcher / the matcher of processFile
  entryPool,        \* entryPool: how many times each LogEntry is in the pool
  poolEntries,      \* the LogEntry objects the pool's New has made, by identity
  acquired,         \* the last return of AcquireEntry: [id, found, entry]
  cfg,              \* cfg of processFile: [Invert, Count]
  pfPc,             \* processFile: "off", "select" or "returned"
  pfLineNum,        \* lineNum of processFile
  pfErr,            \* what processFile returned
  stats,            \* output.Stats: [TotalLines, MatchedLines, ParseErrors]
  writer,           \* output.Writer: [limit, count, out]
  chErrs,           \* the errs channel of ReadLines: the error waiting in it
  recUse,           \* history: what was done, in order, with each record a parser returned
  numbered,         \* history: the line numbers the workers of Filter took, in order
  writeCalls,       \* history: the Write calls on writer, each [entry, ok] with what it returned
  flData,           \* data of JSONParser.Parse: the document json.Unmarshal decoded
  plMode,           \* which filter runs: "lines" (Filter), "chunks" (FilterChunks), "sequential"
  chChunks,         \* the chunks channel: the chunks sent and not yet received
  chChunksClosed,   \* close(chunks) has happened
  lineOffset,       \* lineOffset of FilterChunks
  offsetMu,         \* offsetMu: 0 when unlocked, else the worker holding it
  wChunk,           \* chunk, as the worker received it
  wChunkStart,      \* chunkStart of the worker
  wIndex,           \* i of the worker's loop over its chunk
  rdPc,             \* the goroutine of ReadLines: "off", "open", "scan", "select", "err", "canceled", "return", "done"
  rdSource,         \* what path names: "file" or "stdin"
  rdInput,          \* "ready" when a read of the source returns, "idle" while it would block
  rdLine,           \* scanner.Text() of the line the goroutine is sending
  chErrsSent,       \* history: how many values were sent on errs
  chErrsClosed,     \* close(errs) has happened
  flResult          \* [done, fields]: entry.Fields once flattenMap("", data, entry.Fields) has run

matchVars == <<mtChain, mtEntry, mtMatcher, mtBefore, mtResult, mtCalls>>

queryVars == <<qTokens, qPc, qParsed>>

pipeVars ==
  <<chLines, chLinesClosed, plSent, ctxDone, plWorkers, wPc, wLine, wCurrentLineNum, wEntry,
    sharedLineNum, lineNumMu, chResults, chResultsClosed, plDelivered, plReleased, plMatcher>>

poolVars == <<entryPool, poolEntries, acquired>>

fileVars == <<cfg, pfPc, pfLineNum, pfErr, stats, writer, chErrs>>

entryVars == <<poolVars, fileVars, recUse>>

flatVars == <<flData, flResult>>

chunkVars ==
  <<plMode, chChunks, chChunksClosed, lineOffset, offsetMu, wChunk, wChunkStart, wIndex>>

readerVars == <<rdPc, rdSource, rdInput, rdLine, chErrsSent, chErrsClosed>>

restVars == <<flatVars, chunkVars, readerVars>>

lateVars == <<numbered, writeCalls, restVars>>

vars == <<matchVars, queryVars, pipeVars, entryVars, lateVars>>

(***************************************************************************)
(* Bounds and the inputs drawn                                             *)
(***************************************************************************)
\* conditions plus sub-chains of the chain built through Add / AddSubChain
MaxChainSize == 3

\* Match calls on one Matcher
MaxMatchCalls == 2

\* terms, parenthesis pairs and blanks of a typed query
MaxTerms == 3

MaxParens == 1

MaxSpaces == 1

\* pieces a typed query is made of
MaxTokens == 8

\* three log entries: {l:"a", s:5, m:"wx"}, {l:"w", s:4, m:"a"}, {l:"a", m:"a"},
\* and {l:"w", s:5}
EntryA5 ==
  LogEntry(<<>>, (<<"l">> :> StrV(<<"a">>)) @@ (<<"s">> :> FloatV(5))
                   @@ (<<"m">> :> StrV(<<"w", "x">>)), 1)

EntryW4 ==
  LogEntry(<<>>, (<<"l">> :> StrV(<<"w">>)) @@ (<<"s">> :> FloatV(4))
                   @@ (<<"m">> :> StrV(<<"a">>)), 2)

EntryA ==
  LogEntry(<<>>, (<<"l">> :> StrV(<<"a">>)) @@ (<<"m">> :> StrV(<<"a">>)), 3)

EntryW5 ==
  LogEntry(<<>>, (<<"l">> :> StrV(<<"w">>)) @@ (<<"s">> :> FloatV(5)), 4)

MatchEntries == {EntryA5, EntryW4, EntryA}

QueryEntries == {EntryA5, EntryW4, EntryW5}

\* l = "a", s exists, m ~= "w"
CondPool ==
  { NewCondition(<<"l">>, OpEq, StrV(<<"a">>)),
    NewCondition(<<"s">>, OpExists, NilV),
    NewCondition(<<"m">>, OpRegex, StrV(<<"w">>)) }

\* the sub-chains handed to AddSubChain: an empty chain, chains of one
\* condition, an OR of two conditions, and an OR chain that holds only a
\* sub-chain
SubChainPool ==
  { NewFilterChain(LogicAnd, <<>>),
    NewFilterChain(LogicAnd, <<NewCondition(<<"l">>, OpEq, StrV(<<"a">>))>>),
    NewFilterChain(LogicOr, <<NewCondition(<<"s">>, OpExists, NilV)>>),
    NewFilterChain(LogicOr, <<NewCondition(<<"l">>, OpEq, StrV(<<"a">>)),
                              NewCondition(<<"m">>, OpRegex, StrV(<<"w">>))>>),
    AddSubChain(NewFilterChain(LogicOr, <<>>),
                NewFilterChain(LogicAnd, <<NewCondition(<<"l">>, OpEq, StrV(<<"a">>))>>)) }

ChainSize(chain) == Len(chain.Conditions) + Len(chain.SubChains)

\* the pieces a query is typed from
Token(kind, text) == [kind |-> kind, text |-> text]

TermTokens ==
  { Token("term", <<"l", ":", "a">>),
    Token("term", <<"l", ":", "w">>),
    Token("term", <<"s", ">", "=", "5">>) }

SepTokens == { Token("sep", <<",">>), Token("sep", <<"|">>) }

OpenToken == Token("open", <<"(">>)

CloseToken == Token("close", <<")">>)

SpaceToken == Token("space", <<" ">>)

RECURSIVE Text(_)
Text(tokens) == IF Len(tokens) = 0 THEN <<>> ELSE tokens[1].text \o Text(Tail(tokens))

CountKind(tokens, kind) == Cardinality({i \in 1..Len(tokens) : tokens[i].kind = kind})

LastKind(tokens) == IF Len(tokens) = 0 THEN "start" ELSE tokens[Len(tokens)].kind

NoParse == [err |-> ErrNil, chain |-> NilChain, pos |-> 0]

\* workers of the parallel filter
MaxWorkers == 2

\* lines sent on the lines channel to the parallel filter
MaxLines == 2

\* lines sent on the lines channel to the sequential filter
MaxSeqLines == 3

\* capacity of the lines channel handed to Filter
LinesCap == 1

WorkerIds == 1..MaxWorkers

\* what a line holds: nothing a parser accepts, or the fields of an entry
LineKinds == {"bad", "a5", "w4"}

NoLine == [seq |-> 0, kind |-> "none"]

NoEntry == LogEntry(NoLine, <<>>, 0)

\* the filter chain handed to Filter: l = "a" OR m ~= "w"
PipelineChain ==
  NewFilterChain(LogicOr, << NewCondition(<<"l">>, OpEq, StrV(<<"a">>)),
                             NewCondition(<<"m">>, OpRegex, StrV(<<"w">>)) >>)

(***************************************************************************)
(* Matcher.Match on chains built through the API                           *)
(***************************************************************************)
MatchIdle ==
  /\ mtChain = NilChain
  /\ mtEntry = EntryA5
  /\ mtMatcher = NewMatcher(FALSE)
  /\ mtBefore = NewMatcher(FALSE)
  /\ mtResult = FALSE
  /\ mtCalls = 0

QueryIdle ==
  /\ qTokens = <<>>
  /\ qPc = "api"
  /\ qParsed = NoParse

PipelineIdle ==
  /\ chLines = <<>>
  /\ chLinesClosed = FALSE
  /\ plSent = <<>>
  /\ ctxDone = FALSE
  /\ plWorkers = 0
  /\ wPc = [w \in WorkerIds |-> "off"]
  /\ wLine = [w \in WorkerIds |-> NoLine]
  /\ wCurrentLineNum = [w \in WorkerIds |-> 0]
  /\ wEntry = [w \in WorkerIds |-> NoEntry]
  /\ sharedLineNum = 0
  /\ lineNumMu = 0
  /\ chResults = <<>>
  /\ chResultsClosed = FALSE
  /\ plDelivered = <<>>
  /\ plReleased = {}
  /\ plMatcher = NewMatcher(FALSE)

\* LogEntry ids; 0 is the nil pointer
MaxEntries == 2

EntryIds == 1..MaxEntries

NilId == 0

NoFields == [k \in {} |-> NilV]

\* the place of a LogEntry the pool's New has not made yet
Unallocated == NoEntry

NoneAcquired == [id |-> NilId, found |-> NoEntry, entry |-> NoEntry]

\* sync.Pool{New: ...} before any Get
PoolIdle ==
  /\ entryPool = [i \in EntryIds |-> 0]
  /\ poolEntries = [i \in EntryIds |-> Unallocated]
  /\ acquired = NoneAcquired

\* output.NewStats()
NewStats == [TotalLines |-> 0, MatchedLines |-> 0, ParseErrors |-> 0]

\* output.NewWriter(out, formatter, stats): no limit
NewWriter == [limit |-> -1, count |-> 0, out |-> <<>>]

FileIdle ==
  /\ cfg = [Invert |-> FALSE, Count |-> FALSE]
  /\ pfPc = "off"
  /\ pfLineNum = 0
  /\ pfErr = "none"
  /\ stats = NewStats
  /\ writer = NewWriter
  /\ chErrs = "none"

EntriesIdle ==
  /\ PoolIdle
  /\ FileIdle
  /\ recUse = <<>>

\* no line number taken and no Write call made yet
\* Parse has not run
NotFlattened == [done |-> FALSE, fields |-> NoFields]

FlatIdle ==
  /\ flData = NoFields
  /\ flResult = NotFlattened

\* FilterChunks(ctx, chunks, chain, startLineNum) before its workers start
ChunksStart(mode, startLineNum) ==
  /\ plMode = mode
  /\ chChunks = <<>>
  /\ chChunksClosed = FALSE
  /\ lineOffset = startLineNum
  /\ offsetMu = 0
  /\ wChunk = [w \in WorkerIds |-> <<>>]
  /\ wChunkStart = [w \in WorkerIds |-> 0]
  /\ wIndex = [w \in WorkerIds |-> 0]

ChunksIdle == ChunksStart("lines", 0)

HistoryIdle ==
  /\ numbered = <<>>
  /\ writeCalls = <<>>

\* ReadLines has not been called
ReaderIdle ==
  /\ rdPc = "off"
  /\ rdSource = "file"
  /\ rdInput = "ready"
  /\ rdLine = NoLine
  /\ chErrsSent = 0
  /\ chErrsClosed = FALSE

LateIdle ==
  /\ HistoryIdle
  /\ FlatIdle
  /\ ChunksIdle
  /\ ReaderIdle

InitMatch ==
  /\ mtChain \in {NilChain, NewFilterChain(LogicAnd, <<>>), NewFilterChain(LogicOr, <<>>)}
  /\ mtEntry = EntryA5
  /\ \E ignoreCase \in BOOLEAN :
       /\ mtMatcher = NewMatcher(ignoreCase)
       /\ mtBefore = NewMatcher(ignoreCase)
  /\ mtResult = FALSE
  /\ mtCalls = 0
  /\ QueryIdle
  /\ PipelineIdle
  /\ EntriesIdle
  /\ LateIdle

\* fc.Add(c)
AddCondition(c) ==
  /\ mtCalls = 0
  /\ ~mtChain.isNil
  /\ ChainSize(mtChain) < MaxChainSize
  /\ mtChain' = Add(mtChain, c)
  /\ UNCHANGED <<lateVars, entryVars, mtEntry, mtMatcher, mtBefore, mtResult, mtCalls, queryVars, pipeVars>>

\* fc.AddSubChain(sub)
AddSub(sub) ==
  /\ mtCalls = 0
  /\ ~mtChain.isNil
  /\ ChainSize(mtChain) < MaxChainSize
  /\ mtChain' = AddSubChain(mtChain, sub)
  /\ UNCHANGED <<lateVars, entryVars, mtEntry, mtMatcher, mtBefore, mtResult, mtCalls, queryVars, pipeVars>>

\* result := matcher.Match(entry, chain), on the Matcher as it stands
MatchCall(entry) ==
  /\ mtBefore' = [mtMatcher EXCEPT !.evaluated = <<>>]
  /\ \E r \in {Match(mtBefore', entry, mtChain)} :
       /\ mtMatcher' = r.m
       /\ mtResult' = r.res
  /\ mtEntry' = entry
  /\ mtCalls' = mtCalls + 1
  /\ UNCHANGED <<lateVars, entryVars, mtChain, queryVars, pipeVars>>

DoMatch(entry) ==
  /\ mtCalls < MaxMatchCalls
  /\ MatchCall(entry)

NextMatch ==
  \/ \E c \in CondPool : AddCondition(c)
  \/ \E sub \in SubChainPool : AddSub(sub)
  \/ \E entry \in MatchEntries : DoMatch(entry)

SpecMatch == InitMatch /\ [][NextMatch]_vars

(***************************************************************************)
(* QueryParser.Parse on typed queries, and Match on the parsed chain        *)
(***************************************************************************)
InitParse ==
  /\ MatchIdle
  /\ qTokens = <<>>
  /\ qPc = "typing"
  /\ qParsed = NoParse
  /\ PipelineIdle
  /\ EntriesIdle
  /\ LateIdle

Type(token) ==
  /\ qPc = "typing"
  /\ Len(qTokens) < MaxTokens
  /\ qTokens' = Append(qTokens, token)
  /\ UNCHANGED <<lateVars, entryVars, qPc, qParsed, matchVars, pipeVars>>

TypeTerm(token) ==
  /\ LastKind(qTokens) \in {"start", "sep", "open", "space"}
  /\ CountKind(qTokens, "term") < MaxTerms
  /\ Type(token)

TypeSep(token) ==
  /\ LastKind(SelectSeq(qTokens, LAMBDA t : t.kind # "space")) \in {"term", "close", "open"}
  /\ Type(token)

TypeOpen ==
  /\ LastKind(qTokens) \in {"start", "sep", "open"}
  /\ CountKind(qTokens, "open") < MaxParens
  /\ Type(OpenToken)

TypeClose ==
  /\ LastKind(qTokens) \in {"term", "close"}
  /\ CountKind(qTokens, "close") < MaxParens
  /\ Type(CloseToken)

TypeSpace ==
  /\ LastKind(qTokens) \in {"start", "term", "close"}
  /\ CountKind(qTokens, "space") < MaxSpaces
  /\ Type(SpaceToken)

\* chain, err := queryParser.Parse(cfg.Filter)
DoParse ==
  /\ qPc = "typing"
  /\ qPc' = "parsed"
  /\ qParsed' = Parse(Text(qTokens))
  /\ mtChain' = qParsed'.chain
  /\ UNCHANGED <<lateVars, entryVars, qTokens, mtEntry, mtMatcher, mtBefore, mtResult, mtCalls, pipeVars>>

\* processFile: matcher.Match(entry, chain) with the chain Parse returned
MatchParsed(entry) ==
  /\ qPc = "parsed"
  /\ qParsed.err = ErrNil
  /\ mtCalls = 0
  /\ MatchCall(entry)

NextParse ==
  \/ \E token \in TermTokens : TypeTerm(token)
  \/ \E token \in SepTokens : TypeSep(token)
  \/ TypeOpen
  \/ TypeClose
  \/ TypeSpace
  \/ DoParse
  \/ \E entry \in QueryEntries : MatchParsed(entry)

SpecParse == InitParse /\ [][NextParse]_vars

(***************************************************************************)
(* unnamed/part_004: ParallelFilter.Filter and SequentialFilter.Filter.    *)
(* A line is [seq, kind]: seq is its position in the sequence of lines     *)
(* sent on the lines channel, which an entry keeps in Raw.                 *)
(***************************************************************************)
\* pf.parser.Parse(line, lineNum): an error for a line the parser rejects,
\* else the entry of the line's fields
\* the history with ops done next to entry, a record a parser returned
used(use, entry, ops) ==
  IF entry \in DOMAIN use
    THEN [use EXCEPT ![entry] = @ \o ops]
    ELSE (entry :> ops) @@ use

\* Parse and Match, and ReleaseEntry unless the entry is forwarded
usedByFilter(use, f) ==
  IF f.outcome = "skip" THEN use
  ELSE IF f.outcome = "forward" THEN used(use, f.entry, <<"parse", "match">>)
  ELSE used(use, f.entry, <<"parse", "match", "release">>)

parserParse(line, lineNum) ==
  IF line.kind = "bad"
    THEN [err |-> TRUE, entry |-> NoEntry]
    ELSE [err |-> FALSE,
          entry |-> LogEntry(line, (IF line.kind = "a5" THEN EntryA5 ELSE EntryW4).Fields,
                             lineNum)]

\* the number of a line taken from its place among the lines sent, not from
\* the counter under the mutex
nextLineNum_FromLine(lineNum, line) == line.seq

\* the counter that moves only for a line the parser accepts
nextLineNum_ParsedOnly(lineNum, line) ==
  IF parserParse(line, 0).err THEN lineNum ELSE lineNum + 1

\* lineNum++
nextLineNum(lineNum, line) == lineNum + 1

\* every parsed entry is forwarded, matched or not
WorkerOutcome_ForwardAll(err, matched) == IF err THEN "skip" ELSE "forward"

\* the branches after Parse: continue, send to results, or ReleaseEntry
WorkerOutcome(err, matched) ==
  IF err THEN "skip" ELSE IF matched THEN "forward" ELSE "release"

filterMatched(r, entry) ==
  [outcome |-> WorkerOutcome(FALSE, r.res), entry |-> entry,
   m |-> [r.m EXCEPT !.evaluated = <<>>]]

filterParsed(m, p) ==
  IF WorkerOutcome(p.err, FALSE) = "skip"
    THEN [outcome |-> "skip", entry |-> NoEntry, m |-> m]
    ELSE filterMatched(Match(m, p.entry, PipelineChain), p.entry)

\* entry, err := parser.Parse(line, lineNum), then matcher.Match(entry, chain)
parseAndFilter(m, line, lineNum) == filterParsed(m, parserParse(line, lineNum))

\* make(chan *parser.LogEntry, pf.Workers*2)
ResultsCap(workers) == workers * 2

\* make(chan *parser.LogEntry, 100)
SequentialResultsCap == 100

Running == {w \in WorkerIds : wPc[w] \notin {"off", "done"}}

\* the sender side of the lines channel, for at most max lines
FeedLine(kind, max) ==
  /\ ~chLinesClosed
  /\ Len(plSent) < max
  /\ Len(chLines) < LinesCap
  /\ \E line \in {[seq |-> Len(plSent) + 1, kind |-> kind]} :
       /\ chLines' = Append(chLines, line)
       /\ plSent' = Append(plSent, line)
  /\ UNCHANGED <<lateVars, entryVars, matchVars, queryVars, chLinesClosed, ctxDone, plWorkers, wPc, wLine,
                 wCurrentLineNum, wEntry, sharedLineNum, lineNumMu, chResults,
                 chResultsClosed, plDelivered, plReleased, plMatcher>>

Feed(kind) == FeedLine(kind, MaxLines)

SeqFeed(kind) == FeedLine(kind, MaxSeqLines)

CloseLines ==
  /\ ~chLinesClosed
  /\ chLinesClosed' = TRUE
  /\ UNCHANGED <<lateVars, entryVars, matchVars, queryVars, chLines, plSent, ctxDone, plWorkers, wPc, wLine,
                 wCurrentLineNum, wEntry, sharedLineNum, lineNumMu, chResults,
                 chResultsClosed, plDelivered, plReleased, plMatcher>>

\* cancel() of the context handed to Filter
Cancel ==
  /\ ~ctxDone
  /\ ctxDone' = TRUE
  /\ UNCHANGED <<lateVars, entryVars, matchVars, queryVars, chLines, chLinesClosed, plSent, plWorkers, wPc, wLine,
                 wCurrentLineNum, wEntry, sharedLineNum, lineNumMu, chResults,
                 chResultsClosed, plDelivered, plReleased, plMatcher>>

\* the consumer: entry := <-results
Receive ==
  /\ Len(chResults) > 0
  /\ plDelivered' = Append(plDelivered, Head(chResults))
  /\ chResults' = Tail(chResults)
  /\ UNCHANGED <<lateVars, entryVars, matchVars, queryVars, chLines, chLinesClosed, plSent, ctxDone, plWorkers, wPc,
                 wLine, wCurrentLineNum, wEntry, sharedLineNum, lineNumMu, chResultsClosed,
                 plReleased, plMatcher>>

\* case <-ctx.Done(): return
SelectDone(w) ==
  /\ wPc[w] = "select"
  /\ ctxDone
  /\ wPc' = [wPc EXCEPT ![w] = "done"]
  /\ UNCHANGED <<lateVars, entryVars, matchVars, queryVars, chLines, chLinesClosed, plSent, ctxDone, plWorkers,
                 wLine, wCurrentLineNum, wEntry, sharedLineNum, lineNumMu, chResults,
                 chResultsClosed, plDelivered, plReleased, plMatcher>>

\* case line, ok := <-lines with !ok: return
SelectClosed(w) ==
  /\ wPc[w] = "select"
  /\ chLinesClosed
  /\ Len(chLines) = 0
  /\ wPc' = [wPc EXCEPT ![w] = "done"]
  /\ UNCHANGED <<lateVars, entryVars, matchVars, queryVars, chLines, chLinesClosed, plSent, ctxDone, plWorkers,
                 wLine, wCurrentLineNum, wEntry, sharedLineNum, lineNumMu, chResults,
                 chResultsClosed, plDelivered, plReleased, plMatcher>>

\* case line, ok := <-lines with ok
SelectLine(w) ==
  /\ wPc[w] = "select"
  /\ Len(chLines) > 0
  /\ wLine' = [wLine EXCEPT ![w] = Head(chLines)]
  /\ chLines' = Tail(chLines)
  /\ wPc' = [wPc EXCEPT ![w] = "lock"]
  /\ UNCHANGED <<lateVars, entryVars, matchVars, queryVars, chLinesClosed, plSent, ctxDone, plWorkers,
                 wCurrentLineNum, wEntry, sharedLineNum, lineNumMu, chResults,
                 chResultsClosed, plDelivered, plReleased, plMatcher>>

\* lineNumMu.Lock()
Lock(w) ==
  /\ wPc[w] = "lock"
  /\ lineNumMu = 0
  /\ lineNumMu' = w
  /\ wPc' = [wPc EXCEPT ![w] = "number"]
  /\ UNCHANGED <<lateVars, entryVars, matchVars, queryVars, chLines, chLinesClosed, plSent, ctxDone, plWorkers,
                 wLine, wCurrentLineNum, wEntry, sharedLineNum, chResults, chResultsClosed,
                 plDelivered, plReleased, plMatcher>>

\* lineNum++; currentLineNum := lineNum
Number(w) ==
  /\ wPc[w] = "number"
  /\ sharedLineNum' = nextLineNum(sharedLineNum, wLine[w])
  /\ wCurrentLineNum' = [wCurrentLineNum EXCEPT ![w] = sharedLineNum']
  /\ numbered' = Append(numbered, wCurrentLineNum'[w])
  /\ wPc' = [wPc EXCEPT ![w] = "unlock"]
  /\ UNCHANGED <<writeCalls, restVars, entryVars, matchVars, queryVars, chLines, chLinesClosed, plSent, ctxDone, plWorkers,
                 wLine, wEntry, lineNumMu, chResults, chResultsClosed, plDelivered,
                 plReleased, plMatcher>>

\* lineNumMu.Unlock()
Unlock(w) ==
  /\ wPc[w] = "unlock"
  /\ lineNumMu' = 0
  /\ wPc' = [wPc EXCEPT ![w] = "work"]
  /\ UNCHANGED <<lateVars, entryVars, matchVars, queryVars, chLines, chLinesClosed, plSent, ctxDone, plWorkers,
                 wLine, wCurrentLineNum, wEntry, sharedLineNum, chResults, chResultsClosed,
                 plDelivered, plReleased, plMatcher>>

\* Parse, Match, and ReleaseEntry of the entry that does not match
Work(w) ==
  /\ wPc[w] = "work"
  /\ \E f \in {parseAndFilter(plMatcher, wLine[w], wCurrentLineNum[w])} :
       /\ plMatcher' = f.m
       /\ recUse' = usedByFilter(recUse, f)
       /\ wPc' = [wPc EXCEPT ![w] = IF f.outcome = "forward" THEN "send" ELSE "select"]
       /\ wEntry' = [wEntry EXCEPT ![w] = IF f.outcome = "forward" THEN f.entry ELSE NoEntry]
       /\ plReleased' = IF f.outcome = "release" THEN plReleased \cup {f.entry} ELSE plReleased
  /\ wLine' = [wLine EXCEPT ![w] = NoLine]
  /\ wCurrentLineNum' = [wCurrentLineNum EXCEPT ![w] = 0]
  /\ UNCHANGED <<lateVars, poolVars, fileVars, matchVars, queryVars, chLines, chLinesClosed, plSent, ctxDone, plWorkers,
                 sharedLineNum, lineNumMu, chResults, chResultsClosed, plDelivered>>

\* a return on cancellation that leaves the entry it could not send
SendDone_NoRelease(w) ==
  /\ wPc[w] = "send"
  /\ ctxDone
  /\ wPc' = [wPc EXCEPT ![w] = "done"]
  /\ UNCHANGED <<lateVars, entryVars, matchVars, queryVars, chLines, chLinesClosed, plSent, ctxDone,
                 plWorkers, wLine, wCurrentLineNum, wEntry, sharedLineNum, lineNumMu, chResults,
                 chResultsClosed, plDelivered, plReleased, plMatcher>>

\* case <-ctx.Done(): parser.ReleaseEntry(entry); return
SendDone(w) ==
  /\ wPc[w] = "send"
  /\ ctxDone
  /\ plReleased' = plReleased \cup {wEntry[w]}
  /\ wEntry' = [wEntry EXCEPT ![w] = NoEntry]
  /\ wPc' = [wPc EXCEPT ![w] = "done"]
  /\ recUse' = used(recUse, wEntry[w], <<"release">>)
  /\ UNCHANGED <<lateVars, poolVars, fileVars, matchVars, queryVars, chLines, chLinesClosed, plSent, ctxDone, plWorkers,
                 wLine, wCurrentLineNum, sharedLineNum, lineNumMu, chResults,
                 chResultsClosed, plDelivered, plMatcher>>

\* case results <- entry
Send(w) ==
  /\ wPc[w] = "send"
  /\ ~chResultsClosed
  /\ Len(chResults) < ResultsCap(plWorkers)
  /\ chResults' = Append(chResults, wEntry[w])
  /\ wEntry' = [wEntry EXCEPT ![w] = NoEntry]
  /\ wPc' = [wPc EXCEPT ![w] = "select"]
  /\ recUse' = used(recUse, wEntry[w], <<"send">>)
  /\ UNCHANGED <<lateVars, poolVars, fileVars, matchVars, queryVars, chLines, chLinesClosed, plSent, ctxDone, plWorkers,
                 wLine, wCurrentLineNum, sharedLineNum, lineNumMu, chResultsClosed,
                 plDelivered, plReleased, plMatcher>>

\* one step of the worker goroutine w
WorkerStep(w) ==
  \/ SelectDone(w)
  \/ SelectClosed(w)
  \/ SelectLine(w)
  \/ Lock(w)
  \/ Number(w)
  \/ Unlock(w)
  \/ Work(w)
  \/ SendDone(w)
  \/ Send(w)

\* close(results) without the wait for the workers
CloseResults_NoWait ==
  /\ plWorkers > 0
  /\ ~chResultsClosed
  /\ chResultsClosed' = TRUE
  /\ UNCHANGED <<lateVars, entryVars, matchVars, queryVars, chLines, chLinesClosed, plSent, ctxDone, plWorkers, wPc,
                 wLine, wCurrentLineNum, wEntry, sharedLineNum, lineNumMu, chResults,
                 plDelivered, plReleased, plMatcher>>

\* wg.Wait(); close(results)
CloseResults ==
  /\ plWorkers > 0
  /\ Running = {}
  /\ ~chResultsClosed
  /\ chResultsClosed' = TRUE
  /\ UNCHANGED <<lateVars, entryVars, matchVars, queryVars, chLines, chLinesClosed, plSent, ctxDone, plWorkers, wPc,
                 wLine, wCurrentLineNum, wEntry, sharedLineNum, lineNumMu, chResults,
                 plDelivered, plReleased, plMatcher>>

\* results, the WaitGroup and the workers of a filter, before any step
WorkersStart(workers) ==
  /\ chLines = <<>>
  /\ chLinesClosed = FALSE
  /\ plSent = <<>>
  /\ ctxDone = FALSE
  /\ plWorkers = workers
  /\ wPc = [w \in WorkerIds |-> IF w <= workers THEN "select" ELSE "off"]
  /\ wLine = [w \in WorkerIds |-> NoLine]
  /\ wCurrentLineNum = [w \in WorkerIds |-> 0]
  /\ wEntry = [w \in WorkerIds |-> NoEntry]
  /\ sharedLineNum = 0
  /\ lineNumMu = 0
  /\ chResults = <<>>
  /\ chResultsClosed = FALSE
  /\ plDelivered = <<>>
  /\ plReleased = {}
  /\ plMatcher = NewMatcher(FALSE)

PipelineStart(workers) ==
  /\ MatchIdle
  /\ QueryIdle
  /\ EntriesIdle
  /\ LateIdle
  /\ WorkersStart(workers)

InitParallel == \E workers \in 1..MaxWorkers : PipelineStart(workers)

NextParallel ==
  \/ \E kind \in LineKinds : Feed(kind)
  \/ CloseLines
  \/ Cancel
  \/ Receive
  \/ \E w \in WorkerIds : WorkerStep(w)
  \/ CloseResults

SpecParallel == InitParallel /\ [][NextParallel]_vars

\* a step of the sender's close, of the consumer or of one of Filter's goroutines
Scheduled ==
  \/ CloseLines
  \/ Receive
  \/ CloseResults
  \/ \E w \in WorkerIds : WorkerStep(w)

\* the pipeline does not stop while the sender can close the lines channel,
\* the consumer can receive or a goroutine can run; nothing obliges the
\* context to be cancelled or a further line to be sent
SpecParallelFair == SpecParallel /\ WF_vars(Scheduled)

\* SequentialFilter: case <-ctx.Done(): return, with the deferred close(results)
SeqSelectDone ==
  /\ wPc[1] = "select"
  /\ ctxDone
  /\ wPc' = [wPc EXCEPT ![1] = "done"]
  /\ chResultsClosed' = TRUE
  /\ UNCHANGED <<lateVars, entryVars, matchVars, queryVars, chLines, chLinesClosed, plSent, ctxDone, plWorkers,
                 wLine, wCurrentLineNum, wEntry, sharedLineNum, lineNumMu, chResults,
                 plDelivered, plReleased, plMatcher>>

\* SequentialFilter: !ok: return, with the deferred close(results)
SeqSelectClosed ==
  /\ wPc[1] = "select"
  /\ chLinesClosed
  /\ Len(chLines) = 0
  /\ wPc' = [wPc EXCEPT ![1] = "done"]
  /\ chResultsClosed' = TRUE
  /\ UNCHANGED <<lateVars, entryVars, matchVars, queryVars, chLines, chLinesClosed, plSent, ctxDone, plWorkers,
                 wLine, wCurrentLineNum, wEntry, sharedLineNum, lineNumMu, chResults,
                 plDelivered, plReleased, plMatcher>>

\* SequentialFilter: a line is received, numbered, parsed and matched
SeqTake ==
  /\ wPc[1] = "select"
  /\ Len(chLines) > 0
  /\ chLines' = Tail(chLines)
  /\ sharedLineNum' = nextLineNum(sharedLineNum, Head(chLines))
  /\ \E f \in {parseAndFilter(plMatcher, Head(chLines), sharedLineNum')} :
       /\ plMatcher' = f.m
       /\ recUse' = usedByFilter(recUse, f)
       /\ wPc' = [wPc EXCEPT ![1] = IF f.outcome = "forward" THEN "send" ELSE "select"]
       /\ wEntry' = [wEntry EXCEPT ![1] = IF f.outcome = "forward" THEN f.entry ELSE NoEntry]
       /\ plReleased' = IF f.outcome = "release" THEN plReleased \cup {f.entry} ELSE plReleased
  /\ UNCHANGED <<lateVars, poolVars, fileVars, matchVars, queryVars, chLinesClosed, plSent, ctxDone, plWorkers, wLine,
                 wCurrentLineNum, lineNumMu, chResults, chResultsClosed, plDelivered>>

\* SequentialFilter: case <-ctx.Done(): ReleaseEntry(entry); return
SeqSendDone ==
  /\ wPc[1] = "send"
  /\ ctxDone
  /\ plReleased' = plReleased \cup {wEntry[1]}
  /\ wEntry' = [wEntry EXCEPT ![1] = NoEntry]
  /\ wPc' = [wPc EXCEPT ![1] = "done"]
  /\ chResultsClosed' = TRUE
  /\ recUse' = used(recUse, wEntry[1], <<"release">>)
  /\ UNCHANGED <<lateVars, poolVars, fileVars, matchVars, queryVars, chLines, chLinesClosed, plSent, ctxDone, plWorkers,
                 wLine, wCurrentLineNum, sharedLineNum, lineNumMu, chResults, plDelivered,
                 plMatcher>>

\* SequentialFilter: case results <- entry
SeqSend ==
  /\ wPc[1] = "send"
  /\ Len(chResults) < SequentialResultsCap
  /\ chResults' = Append(chResults, wEntry[1])
  /\ wEntry' = [wEntry EXCEPT ![1] = NoEntry]
  /\ wPc' = [wPc EXCEPT ![1] = "select"]
  /\ recUse' = used(recUse, wEntry[1], <<"send">>)
  /\ UNCHANGED <<lateVars, poolVars, fileVars, matchVars, queryVars, chLines, chLinesClosed, plSent, ctxDone, plWorkers,
                 wLine, wCurrentLineNum, sharedLineNum, lineNumMu, chResultsClosed,
                 plDelivered, plReleased, plMatcher>>

InitSequential == PipelineStart(1)

NextSequential ==
  \/ \E kind \in LineKinds : SeqFeed(kind)
  \/ CloseLines
  \/ Cancel
  \/ Receive
  \/ SeqSelectDone
  \/ SeqSelectClosed
  \/ SeqTake
  \/ SeqSendDone
  \/ SeqSend

SpecSequential == InitSequential /\ [][NextSequential]_vars

(***************************************************************************)
(* unnamed/part_004: ParallelFilter.FilterChunks.  A chunk is a sequence   *)
(* of lines; the workers are those of Filter, with a loop over the chunk.  *)
(***************************************************************************)
\* lines sent on the chunks channel, all chunks together
MaxChunkLines == 2

\* lines of a chunk
MaxChunkLen == 2

\* startLineNum handed to FilterChunks: the number of the first line
StartLineNum == 1

\* what a line of a chunk holds: an entry that matches or one that does not
ChunkKinds == {"a5", "w4"}

\* what the steps of a filter leave alone outside the pipeline
besidePipeline ==
  <<matchVars, queryVars, poolVars, fileVars, numbered, writeCalls, flatVars, readerVars>>

\* the lines of a chunk of these kinds, numbered on from the lines sent so far
ChunkOf(kinds) == [i \in 1..Len(kinds) |-> [seq |-> Len(plSent) + i, kind |-> kinds[i]]]

\* the sender side of the chunks channel
FeedChunk(kinds) ==
  /\ plMode = "chunks"
  /\ ~chChunksClosed
  /\ Len(plSent) + Len(kinds) <= MaxChunkLines
  /\ Len(chChunks) < LinesCap
  /\ chChunks' = Append(chChunks, ChunkOf(kinds))
  /\ plSent' = plSent \o ChunkOf(kinds)
  /\ UNCHANGED <<besidePipeline, recUse, plMode, chChunksClosed, lineOffset, offsetMu, wChunk,
                 wChunkStart, wIndex, chLines, chLinesClosed, ctxDone, plWorkers, wPc, wLine,
                 wCurrentLineNum, wEntry, sharedLineNum, lineNumMu, chResults,
                 chResultsClosed, plDelivered, plReleased, plMatcher>>

\* close(chunks) by the sender
CloseChunks ==
  /\ plMode = "chunks"
  /\ ~chChunksClosed
  /\ chChunksClosed' = TRUE
  /\ UNCHANGED <<besidePipeline, recUse, plMode, chChunks, lineOffset, offsetMu, wChunk,
                 wChunkStart, wIndex, pipeVars>>

\* case chunk, ok := <-chunks with !ok: return
ChunkClosed(w) ==
  /\ wPc[w] = "select"
  /\ chChunksClosed
  /\ Len(chChunks) = 0
  /\ wPc' = [wPc EXCEPT ![w] = "done"]
  /\ UNCHANGED <<besidePipeline, recUse, chunkVars, chLines, chLinesClosed, plSent, ctxDone,
                 plWorkers, wLine, wCurrentLineNum, wEntry, sharedLineNum, lineNumMu,
                 chResults, chResultsClosed, plDelivered, plReleased, plMatcher>>

\* case chunk, ok := <-chunks with ok
TakeChunk(w) ==
  /\ wPc[w] = "select"
  /\ Len(chChunks) > 0
  /\ wChunk' = [wChunk EXCEPT ![w] = Head(chChunks)]
  /\ chChunks' = Tail(chChunks)
  /\ wPc' = [wPc EXCEPT ![w] = "lock"]
  /\ UNCHANGED <<besidePipeline, recUse, plMode, chChunksClosed, lineOffset, offsetMu,
                 wChunkStart, wIndex, chLines, chLinesClosed, plSent, ctxDone, plWorkers,
                 wLine, wCurrentLineNum, wEntry, sharedLineNum, lineNumMu, chResults,
                 chResultsClosed, plDelivered, plReleased, plMatcher>>

\* offsetMu.Lock()
OffsetLock(w) ==
  /\ wPc[w] = "lock"
  /\ offsetMu = 0
  /\ offsetMu' = w
  /\ wPc' = [wPc EXCEPT ![w] = "number"]
  /\ UNCHANGED <<besidePipeline, recUse, plMode, chChunks, chChunksClosed, lineOffset, wChunk,
                 wChunkStart, wIndex, chLines, chLinesClosed, plSent, ctxDone, plWorkers,
                 wLine, wCurrentLineNum, wEntry, sharedLineNum, lineNumMu, chResults,
                 chResultsClosed, plDelivered, plReleased, plMatcher>>

\* chunkStart := lineOffset; lineOffset += len(chunk)
TakeOffset(w) ==
  /\ wPc[w] = "number"
  /\ wChunkStart' = [wChunkStart EXCEPT ![w] = lineOffset]
  /\ lineOffset' = lineOffset + Len(wChunk[w])
  /\ wPc' = [wPc EXCEPT ![w] = "unlock"]
  /\ UNCHANGED <<besidePipeline, recUse, plMode, chChunks, chChunksClosed, offsetMu, wChunk,
                 wIndex, chLines, chLinesClosed, plSent, ctxDone, plWorkers, wLine,
                 wCurrentLineNum, wEntry, sharedLineNum, lineNumMu, chResults,
                 chResultsClosed, plDelivered, plReleased, plMatcher>>

\* offsetMu.Unlock(), and the loop over the chunk begins
OffsetUnlock(w) ==
  /\ wPc[w] = "unlock"
  /\ offsetMu' = 0
  /\ wIndex' = [wIndex EXCEPT ![w] = 0]
  /\ wPc' = [wPc EXCEPT ![w] = "range"]
  /\ UNCHANGED <<besidePipeline, recUse, plMode, chChunks, chChunksClosed, lineOffset, wChunk,
                 wChunkStart, chLines, chLinesClosed, plSent, ctxDone, plWorkers, wLine,
                 wCurrentLineNum, wEntry, sharedLineNum, lineNumMu, chResults,
                 chResultsClosed, plDelivered, plReleased, plMatcher>>

\* for i, line := range chunk: Parse(line, chunkStart+i), Match, and
\* ReleaseEntry of the entry that does not match
ChunkLine(w) ==
  /\ wPc[w] = "range"
  /\ wIndex[w] < Len(wChunk[w])
  /\ \E f \in {parseAndFilter(plMatcher, wChunk[w][wIndex[w] + 1], wChunkStart[w] + wIndex[w])} :
       /\ plMatcher' = f.m
       /\ recUse' = usedByFilter(recUse, f)
       /\ wPc' = [wPc EXCEPT ![w] = IF f.outcome = "forward" THEN "send" ELSE "range"]
       /\ wEntry' = [wEntry EXCEPT ![w] = IF f.outcome = "forward" THEN f.entry ELSE NoEntry]
       /\ plReleased' = IF f.outcome = "release" THEN plReleased \cup {f.entry} ELSE plReleased
  /\ wIndex' = [wIndex EXCEPT ![w] = @ + 1]
  /\ UNCHANGED <<besidePipeline, plMode, chChunks, chChunksClosed, lineOffset, offsetMu, wChunk,
                 wChunkStart, chLines, chLinesClosed, plSent, ctxDone, plWorkers, wLine,
                 wCurrentLineNum, sharedLineNum, lineNumMu, chResults, chResultsClosed,
                 plDelivered>>

\* the loop over the chunk is over: back to the select
ChunkEnd(w) ==
  /\ wPc[w] = "range"
  /\ wIndex[w] = Len(wChunk[w])
  /\ wChunk' = [wChunk EXCEPT ![w] = <<>>]
  /\ wChunkStart' = [wChunkStart EXCEPT ![w] = 0]
  /\ wIndex' = [wIndex EXCEPT ![w] = 0]
  /\ wPc' = [wPc EXCEPT ![w] = "select"]
  /\ UNCHANGED <<besidePipeline, recUse, plMode, chChunks, chChunksClosed, lineOffset, offsetMu,
                 chLines, chLinesClosed, plSent, ctxDone, plWorkers, wLine, wCurrentLineNum,
                 wEntry, sharedLineNum, lineNumMu, chResults, chResultsClosed, plDelivered,
                 plReleased, plMatcher>>

\* case results <- entry, and on to the next line of the chunk
ChunkSend(w) ==
  /\ wPc[w] = "send"
  /\ ~chResultsClosed
  /\ Len(chResults) < ResultsCap(plWorkers)
  /\ chResults' = Append(chResults, wEntry[w])
  /\ wEntry' = [wEntry EXCEPT ![w] = NoEntry]
  /\ wPc' = [wPc EXCEPT ![w] = "range"]
  /\ recUse' = used(recUse, wEntry[w], <<"send">>)
  /\ UNCHANGED <<besidePipeline, chunkVars, chLines, chLinesClosed, plSent, ctxDone, plWorkers,
                 wLine, wCurrentLineNum, sharedLineNum, lineNumMu, chResultsClosed,
                 plDelivered, plReleased, plMatcher>>

\* one step of the worker goroutine w of FilterChunks
ChunkWorkerStep(w) ==
  /\ plMode = "chunks"
  /\ \/ SelectDone(w)
     \/ ChunkClosed(w)
     \/ TakeChunk(w)
     \/ OffsetLock(w)
     \/ TakeOffset(w)
     \/ OffsetUnlock(w)
     \/ ChunkLine(w)
     \/ ChunkEnd(w)
     \/ SendDone(w)
     \/ ChunkSend(w)

\* the three filters of part_004, one of them per behaviour
FiltersStart(mode, workers, startLineNum) ==
  /\ MatchIdle
  /\ QueryIdle
  /\ EntriesIdle
  /\ HistoryIdle
  /\ FlatIdle
  /\ ReaderIdle
  /\ ChunksStart(mode, startLineNum)
  /\ WorkersStart(workers)

InitFilters ==
  \/ \E workers \in 1..MaxWorkers : FiltersStart("lines", workers, 0)
  \/ \E workers \in 1..MaxWorkers : FiltersStart("chunks", workers, StartLineNum)
  \/ FiltersStart("sequential", 1, 0)

\* the sender of lines, for Filter
LinesFeed(kind) ==
  /\ plMode = "lines"
  /\ Feed(kind)

\* the sender of lines, for SequentialFilter.Filter
SequentialFeed(kind) ==
  /\ plMode = "sequential"
  /\ SeqFeed(kind)

LinesClose ==
  /\ plMode # "chunks"
  /\ CloseLines

\* one step of a worker goroutine of Filter
LinesWorkerStep(w) ==
  /\ plMode = "lines"
  /\ WorkerStep(w)

\* one step of the goroutine of SequentialFilter.Filter
SequentialStep ==
  /\ plMode = "sequential"
  /\ \/ SeqSelectDone
     \/ SeqSelectClosed
     \/ SeqTake
     \/ SeqSendDone
     \/ SeqSend

\* Filter and FilterChunks: wg.Wait(); close(results)
JoinAndClose ==
  /\ plMode # "sequential"
  /\ CloseResults

NextFilters ==
  \/ \E kind \in LineKinds : LinesFeed(kind)
  \/ \E kind \in LineKinds : SequentialFeed(kind)
  \/ \E kinds \in UNION {[1..n -> ChunkKinds] : n \in 1..MaxChunkLen} : FeedChunk(kinds)
  \/ LinesClose
  \/ CloseChunks
  \/ Cancel
  \/ Receive
  \/ \E w \in WorkerIds : LinesWorkerStep(w)
  \/ \E w \in WorkerIds : ChunkWorkerStep(w)
  \/ SequentialStep
  \/ JoinAndClose

SpecFilters == InitFilters /\ [][NextFilters]_vars

(***************************************************************************)
(* The LogEntry pool (internal/parser/keyvalue.go)                         *)
(***************************************************************************)
\* The pool and the objects it hands out travel through the operators as
\* h = [pool, entries, acquired]; the variables hold it between steps.
Heap == [pool |-> entryPool, entries |-> poolEntries, acquired |-> acquired]

Allocated(h) == {i \in EntryIds : h.entries[i] # Unallocated}

\* &LogEntry{Fields: make(map[string]any, 16)}
NewEntry == LogEntry(<<>>, NoFields, 0)

\* entryPool.Get(): an object that is in the pool, or a new one.  sync.Pool
\* may drop what it holds, so New can run while the pool still holds objects.
poolGet(h) ==
  {[id |-> i, h |-> [h EXCEPT !.pool[i] = @ - 1]] : i \in {j \in EntryIds : h.pool[j] > 0}}
    \cup {[id |-> i, h |-> [h EXCEPT !.entries[i] = NewEntry]] :
            i \in {j \in EntryIds : j \notin Allocated(h) /\ \A k \in 1..(j - 1) : k \in Allocated(h)}}

\* an AcquireEntry that resets Raw and LineNum and leaves the fields
clearEntry_KeepFields(entry) == [entry EXCEPT !.Raw = <<>>, !.LineNum = 0]

\* delete every key of entry.Fields; entry.Raw = ""; entry.LineNum = 0
clearEntry(entry) == [entry EXCEPT !.Fields = NoFields, !.Raw = <<>>, !.LineNum = 0]

acquireGot(g, entry) ==
  [id |-> g.id,
   h |-> [g.h EXCEPT !.entries[g.id] = entry,
                     !.acquired = [id |-> g.id, found |-> g.h.entries[g.id], entry |-> entry]]]

\* AcquireEntry(): every [id, h] it can return
AcquireEntry(h) == {acquireGot(g, clearEntry(g.h.entries[g.id])) : g \in poolGet(h)}

\* ReleaseEntry(entry)
ReleaseEntry(h, id) == IF id # NilId THEN [h EXCEPT !.pool[id] = @ + 1] ELSE h

HeapBecomes(h) ==
  /\ entryPool' = h.pool
  /\ poolEntries' = h.entries
  /\ acquired' = h.acquired

\* times one LogEntry is put into the pool without being taken out
MaxPooled == 2

\* what a holder of a LogEntry writes into it
DirtyEntries ==
  { LogEntry(<<"l", "=", "a">>, (<<"l">> :> StrV(<<"a">>)), 1),
    LogEntry(<<"w">>, NoFields, 2),
    LogEntry(<<>>, (<<"s">> :> IntV(5)), 0) }

InitPool ==
  /\ MatchIdle
  /\ QueryIdle
  /\ PipelineIdle
  /\ EntriesIdle
  /\ LateIdle

\* entry := AcquireEntry()
Acquire ==
  /\ \E a \in AcquireEntry(Heap) : HeapBecomes(a.h)
  /\ UNCHANGED <<lateVars, matchVars, queryVars, pipeVars, fileVars, recUse>>

\* entry.Raw = ...; entry.LineNum = ...; entry.Fields[k] = ..., through any
\* pointer to the entry that is still around
Mutate(id, entry) ==
  /\ id \in Allocated(Heap)
  /\ poolEntries' = [poolEntries EXCEPT ![id] = entry]
  /\ UNCHANGED <<lateVars, matchVars, queryVars, pipeVars, fileVars, recUse, entryPool, acquired>>

\* ReleaseEntry(entry), of nil or of any entry, released before or not
Release(id) ==
  /\ id = NilId \/ (id \in Allocated(Heap) /\ entryPool[id] < MaxPooled)
  /\ HeapBecomes(ReleaseEntry(Heap, id))
  /\ UNCHANGED <<lateVars, matchVars, queryVars, pipeVars, fileVars, recUse>>

NextPool ==
  \/ Acquire
  \/ \E id \in EntryIds, entry \in DirtyEntries : Mutate(id, entry)
  \/ \E id \in EntryIds \cup {NilId} : Release(id)

SpecPool == InitPool /\ [][NextPool]_vars

(***************************************************************************)
(* The parsers (internal/parser/json.go, keyvalue.go, auto.go)             *)
(***************************************************************************)
\* A parser's answer is [id, err, h]: the entry, whether err is non-nil, and
\* the pool afterwards.
\* entry.Raw = line; entry.LineNum = lineNum; fields written into entry.Fields
parsedEntry(a, line, lineNum, fields) ==
  [id |-> a.id, err |-> FALSE,
   h |-> [a.h EXCEPT !.entries[a.id] =
            [@ EXCEPT !.Raw = line, !.LineNum = lineNum, !.Fields = fields @@ @]]]

\* ReleaseEntry(entry); return nil, err
parseFailed(a, line, lineNum) ==
  [id |-> NilId, err |-> TRUE,
   h |-> ReleaseEntry(parsedEntry(a, line, lineNum, NoFields).h, a.id)]

Quote == "\""

\* the position of the first quote of s at or after pos, len(s) if none
RECURSIVE quoteFrom(_, _)
quoteFrom(s, pos) ==
  IF pos >= Len(s) \/ At(s, pos) = Quote THEN pos ELSE quoteFrom(s, pos + 1)

jsonFails == [ok |-> FALSE, data |-> NoFields]

jsonValue(line, key, pos, end) ==
  IF end + 2 = Len(line) /\ At(line, end + 1) = "}"
    THEN [ok |-> TRUE, data |-> (key :> StrV(Slice(line, pos, end)))]
    ELSE jsonFails

jsonMember(line, keyEnd) ==
  IF keyEnd + 2 < Len(line) /\ At(line, keyEnd + 1) = ":" /\ At(line, keyEnd + 2) = Quote
    THEN jsonValue(line, Slice(line, 2, keyEnd), keyEnd + 3, quoteFrom(line, keyEnd + 3))
    ELSE jsonFails

\* json.Unmarshal([]byte(line), &data) on the lines of the model: the text is
\* an object when it is {} or {"key":"value"} with no space, escape or further
\* member; every other text of the model is not JSON.
jsonUnmarshal(line) ==
  IF line = <<"{", "}">> THEN [ok |-> TRUE, data |-> NoFields]
  ELSE IF Len(line) >= 2 /\ At(line, 0) = "{" /\ At(line, 1) = Quote
    THEN jsonMember(line, quoteFrom(line, 2))
    ELSE jsonFails

\* A decoded JSON value is a leaf (a value of the Matcher), a mapping
\* [t |-> "object", members] or an array [t |-> "array", items].
ObjectV(members) == [t |-> "object", members |-> members]

ArrayV(items) == [t |-> "array", items |-> items]

\* result[key] = v
Put(result, key, v) == (key :> v) @@ result

\* fullKey := key, or prefix + "." + key
fullKey(prefix, key) == IF prefix = <<>> THEN key ELSE prefix \o <<".">> \o key

\* fullKey + "[" + itoa(i) + "]"
arrayPrefix(key, i) == key \o <<"[">> \o NatToStr(i) \o <<"]">>

RECURSIVE flattenMap(_, _, _), flattenRange(_, _, _, _), flattenItems(_, _, _, _)

\* for i, item := range v: the items that are mappings are flattened under
\* fullKey[i]; results is what the map may hold so far
flattenItems(key, items, i, results) ==
  IF i >= Len(items) THEN results
  ELSE flattenItems(key, items, i + 1,
         IF items[i + 1].t = "object"
           THEN UNION {flattenMap(arrayPrefix(key, i), items[i + 1].members, r) : r \in results}
           ELSE results)

\* a nested mapping stored without the line that keeps the mapping itself
flattenValue_LeavesOnly(key, v, result) ==
  CASE v.t = "object" -> flattenMap(key, v.members, result)
    [] v.t = "array" -> flattenItems(key, v.items, 0, {Put(result, key, v)})
    [] OTHER -> {Put(result, key, v)}

\* switch v := value.(type)
flattenValue(key, v, result) ==
  CASE v.t = "object" -> {Put(r, key, v) : r \in flattenMap(key, v.members, result)}
    [] v.t = "array" -> flattenItems(key, v.items, 0, {Put(result, key, v)})
    [] OTHER -> {Put(result, key, v)}

\* for key, value := range data, in an order the Go runtime chooses: keys are
\* the keys not visited yet
flattenRange(prefix, data, keys, result) ==
  IF keys = {} THEN {result}
  ELSE UNION {UNION {flattenRange(prefix, data, keys \ {k}, r) :
                       r \in flattenValue(fullKey(prefix, k), data[k], result)} : k \in keys}

\* flattenMap(prefix, data, result): every map result may be afterwards
flattenMap(prefix, data, result) == flattenRange(prefix, data, DOMAIN data, result)

\* JSONParser.CanParse
jsonCanParse(line) == Len(TrimSpace(line)) > 0 /\ At(TrimSpace(line), 0) = "{"

jsonParsed(a, line, lineNum, u) ==
  IF u.ok
    THEN {parsedEntry(a, line, lineNum, fields) : fields \in flattenMap(<<>>, u.data, NoFields)}
    ELSE {parseFailed(a, line, lineNum)}

\* JSONParser.Parse
jsonParse(h, line, lineNum) ==
  UNION {jsonParsed(a, line, lineNum, jsonUnmarshal(line)) : a \in AcquireEntry(h)}

\* inferType
inferType(s) ==
  IF ParseInt(s).ok THEN IntV(ParseInt(s).n)
  ELSE IF ParseFloat(s).ok THEN FloatV(ParseFloat(s).n)
  ELSE IF ToLower(s) = <<"t", "r", "u", "e">> THEN BoolV(TRUE)
  ELSE IF ToLower(s) = <<"f", "a", "l", "s", "e">> THEN BoolV(FALSE)
  ELSE StrV(s)

\* the scans of parseKeyValues: each returns the position where it stops
RECURSIVE kvSkipSpace(_, _)
kvSkipSpace(line, i) ==
  IF i < Len(line) /\ IsSpace(At(line, i)) THEN kvSkipSpace(line, i + 1) ELSE i

RECURSIVE kvKeyEnd(_, _)
kvKeyEnd(line, i) ==
  IF i < Len(line) /\ At(line, i) # "=" /\ ~IsSpace(At(line, i)) THEN kvKeyEnd(line, i + 1) ELSE i

RECURSIVE kvWordEnd(_, _)
kvWordEnd(line, i) ==
  IF i < Len(line) /\ ~IsSpace(At(line, i)) THEN kvWordEnd(line, i + 1) ELSE i

\* the quoted value; the lines of the model hold no backslash
kvQuotedEnd(line, i) == quoteFrom(line, i)

kvPut(fields, key, value) == (key :> value) @@ fields

\* parseKeyValues(line, entry.Fields), from position i on
RECURSIVE parseKeyValuesFrom(_, _, _)
kvValue(line, key, i, fields) ==
  IF i >= Len(line) THEN kvPut(fields, key, StrV(<<>>))
  ELSE IF At(line, i) = Quote
    THEN parseKeyValuesFrom(line,
           IF kvQuotedEnd(line, i + 1) < Len(line)
             THEN kvQuotedEnd(line, i + 1) + 1 ELSE kvQuotedEnd(line, i + 1),
           kvPut(fields, key, inferType(Slice(line, i + 1, kvQuotedEnd(line, i + 1)))))
    ELSE parseKeyValuesFrom(line, kvWordEnd(line, i),
           kvPut(fields, key, inferType(Slice(line, i, kvWordEnd(line, i)))))

kvKey(line, keyStart, i, fields) ==
  IF i >= Len(line) \/ At(line, i) # "="
    THEN parseKeyValuesFrom(line, kvWordEnd(line, i), fields)
    ELSE kvValue(line, Slice(line, keyStart, i), i + 1, fields)

kvPair(line, i, fields) ==
  IF i >= Len(line) THEN fields ELSE kvKey(line, i, kvKeyEnd(line, i), fields)

parseKeyValuesFrom(line, i, fields) ==
  IF i < Len(line) THEN kvPair(line, kvSkipSpace(line, i), fields) ELSE fields

parseKeyValues(line) == parseKeyValuesFrom(line, 0, NoFields)

\* KeyValueParser.CanParse
kvCanParse(line) ==
  /\ \E i \in 1..Len(line) : line[i] = "="
  /\ ~(Len(TrimSpace(line)) > 0 /\ At(TrimSpace(line), 0) = "{")

\* KeyValueParser.Parse
kvParse(h, line, lineNum) ==
  {parsedEntry(a, line, lineNum, parseKeyValues(line)) : a \in AcquireEntry(h)}

\* AutoParser.Parse: an entry with just the raw line
rawParse(h, line, lineNum) ==
  {parsedEntry(a, line, lineNum, NoFields) : a \in AcquireEntry(h)}

\* AutoParser.Parse: after the JSON attempt
autoPlain(h, line, lineNum) ==
  IF kvCanParse(line) THEN kvParse(h, line, lineNum) ELSE rawParse(h, line, lineNum)

autoAfterJSON(j, line, lineNum) ==
  IF ~j.err THEN {j} ELSE autoPlain(j.h, line, lineNum)

autoTrimmed(h, line, lineNum) ==
  IF Len(line) = 0 THEN rawParse(h, line, lineNum)
  ELSE IF jsonCanParse(line)
    THEN UNION {autoAfterJSON(j, line, lineNum) : j \in jsonParse(h, line, lineNum)}
    ELSE autoPlain(h, line, lineNum)

\* AutoParser.Parse
autoParse(h, line, lineNum) == autoTrimmed(h, TrimSpace(line), lineNum)

(***************************************************************************)
(* output.Writer and processFile (cmd/flog/main.go)                        *)
(***************************************************************************)
\* RawFormatter.Format: the original line
Format(entry) == entry.Raw

\* Writer.SetLimit
SetLimit(w, n) == [w EXCEPT !.limit = n]

\* Write whose limit test lets the call after the n-th through
Write_OneMore(w, st, entry) ==
  IF w.limit >= 0 /\ w.count > w.limit
    THEN [ok |-> FALSE, w |-> w, stats |-> st]
    ELSE [ok |-> w.limit < 0 \/ w.count + 1 < w.limit,
          w |-> [w EXCEPT !.count = @ + 1, !.out = Append(@, Format(entry))],
          stats |-> [st EXCEPT !.MatchedLines = @ + 1]]

\* Writer.Write with stats.IncrMatched: [ok, w, stats]
Write(w, st, entry) ==
  IF w.limit >= 0 /\ w.count >= w.limit
    THEN [ok |-> FALSE, w |-> w, stats |-> st]
    ELSE [ok |-> w.limit < 0 \/ w.count + 1 < w.limit,
          w |-> [w EXCEPT !.count = @ + 1, !.out = Append(@, Format(entry))],
          stats |-> [st EXCEPT !.MatchedLines = @ + 1]]

\* processFile between two selects, as s = [h, lineNum, stats, writer,
\* matcher, pc, err, ops]; ops is what was done with the entry of this line.
ProcessState ==
  [h |-> Heap, lineNum |-> pfLineNum, stats |-> stats, writer |-> writer,
   matcher |-> plMatcher, pc |-> pfPc, err |-> pfErr, ops |-> <<>>]

\* parser.ReleaseEntry(entry)
released(s, id) == [s EXCEPT !.h = ReleaseEntry(@, id), !.ops = Append(@, "release")]

\* a limit branch without its return: the entry is released there and again
\* at the end of the loop body
limitReached_FallThrough(s, id) == released(released(s, id), id)

\* limit reached: parser.ReleaseEntry(entry); return nil
limitReached(s, id) == [released(s, id) EXCEPT !.pc = "returned", !.err = "nil"]

\* if !writer.Write(entry) { ... }, then the ReleaseEntry that ends the body
written(s, id, wr) ==
  IF ~wr.ok
    THEN limitReached([s EXCEPT !.writer = wr.w, !.stats = wr.stats, !.ops = Append(@, "write")], id)
    ELSE released([s EXCEPT !.writer = wr.w, !.stats = wr.stats, !.ops = Append(@, "write")], id)

\* if matched { ... }
whenMatched(s, id, count) ==
  IF ~count
    THEN written(s, id, Write(s.writer, s.stats, s.h.entries[id]))
    ELSE released([s EXCEPT !.stats.MatchedLines = @ + 1], id)

\* matched := matcher.Match(entry, chain); if cfg.Invert { matched = !matched }
afterMatch(s, id, config, r) ==
  IF r.res # config.Invert
    THEN whenMatched([s EXCEPT !.matcher = [r.m EXCEPT !.evaluated = <<>>],
                               !.ops = Append(@, "match")], id, config.Count)
    ELSE released([s EXCEPT !.matcher = [r.m EXCEPT !.evaluated = <<>>],
                            !.ops = Append(@, "match")], id)

\* entry, err := p.Parse(line, lineNum); if err != nil { stats.IncrErrors(); continue }
afterParse(s, config, chain, p) ==
  IF p.err
    THEN [s EXCEPT !.h = p.h, !.stats.ParseErrors = @ + 1]
    ELSE afterMatch([s EXCEPT !.h = p.h, !.ops = <<"parse">>], p.id, config,
                    Match(s.matcher, p.h.entries[p.id], chain))

\* the entry of the line, as Parse returned it
parsedAs(p) == IF p.err THEN NoEntry ELSE p.h.entries[p.id]

\* lineNum++; stats.IncrTotal(); and the rest of the body for one line: every
\* [entry, s] it can end in
processCounted(s, config, chain, line) ==
  {[entry |-> parsedAs(p), s |-> afterParse(s, config, chain, p)] :
     p \in autoParse(s.h, line, s.lineNum)}

processLine(s, config, chain, line) ==
  processCounted([s EXCEPT !.lineNum = @ + 1, !.stats.TotalLines = @ + 1], config, chain, line)

\* lines of one file
MaxFileLines == 2

\* -n of the command line
MaxLimit == 1

LineJSON == <<"{", "\"", "l", "\"", ":", "\"", "a", "\"", "}">>

LineJSONOther == <<"{", "\"", "l", "\"", ":", "\"", "w", "\"", "}">>

LineMalformed == <<"{", "l", "=", "a">>

LineKeyValue == <<"l", "=", "a", " ">>

LineBlank == <<" ">>

LinePlain == <<"a">>

FileLines == {LineJSON, LineJSONOther, LineMalformed, LineKeyValue, LineBlank, LinePlain}

\* main hands processFile the AutoParser, the parsed chain, a Writer with the
\* limit of -n and fresh Stats
InitFile ==
  /\ MatchIdle
  /\ QueryIdle
  /\ PipelineIdle
  /\ PoolIdle
  /\ LateIdle
  /\ recUse = <<>>
  /\ cfg \in [Invert : BOOLEAN, Count : BOOLEAN]
  /\ pfPc = "select"
  /\ pfLineNum = 0
  /\ pfErr = "none"
  /\ stats = NewStats
  /\ writer \in {NewWriter} \cup {SetLimit(NewWriter, n) : n \in 1..MaxLimit}
  /\ chErrs = "none"

\* ReadLines: lines <- scanner.Text()
ReadLine(text) ==
  /\ pfPc # "off"
  /\ FeedLine(text, MaxFileLines)

\* ReadLines: errs <- err, with the deferred close of both channels
ReaderFails(err) ==
  /\ pfPc # "off"
  /\ ~chLinesClosed
  /\ chErrs = "none"
  /\ err = "canceled" => ctxDone
  /\ chErrs' = err
  /\ chLinesClosed' = TRUE
  /\ UNCHANGED <<lateVars, matchVars, queryVars, poolVars, recUse, chLines, plSent, ctxDone, plWorkers,
                 wPc, wLine, wCurrentLineNum, wEntry, sharedLineNum, lineNumMu, chResults,
                 chResultsClosed, plDelivered, plReleased, plMatcher, cfg, pfPc, pfLineNum,
                 pfErr, stats, writer>>

\* the lines of the pipeline are sent to its workers only
PipelineFeed(kind) ==
  /\ plWorkers > 0
  /\ Feed(kind)

\* processFile: case <-ctx.Done(): return ctx.Err()
FileSelectDone ==
  /\ pfPc = "select"
  /\ ctxDone
  /\ pfPc' = "returned"
  /\ pfErr' = "canceled"
  /\ UNCHANGED <<lateVars, matchVars, queryVars, pipeVars, poolVars, recUse, cfg, pfLineNum, stats,
                 writer, chErrs>>

\* processFile: case err := <-errs with err != nil: return err
FileSelectErr ==
  /\ pfPc = "select"
  /\ chErrs # "none"
  /\ pfPc' = "returned"
  /\ pfErr' = chErrs
  /\ chErrs' = "none"
  /\ UNCHANGED <<lateVars, matchVars, queryVars, pipeVars, poolVars, recUse, cfg, pfLineNum, stats,
                 writer>>

\* processFile: case line, ok := <-lines with !ok: return nil
FileSelectClosed ==
  /\ pfPc = "select"
  /\ chLinesClosed
  /\ Len(chLines) = 0
  /\ pfPc' = "returned"
  /\ pfErr' = "nil"
  /\ UNCHANGED <<lateVars, matchVars, queryVars, pipeVars, poolVars, recUse, cfg, pfLineNum, stats,
                 writer, chErrs>>

\* processFile: case line, ok := <-lines with ok, and the body for the line
FileLine ==
  /\ pfPc = "select"
  /\ Len(chLines) > 0
  /\ chLines' = Tail(chLines)
  /\ \E r \in processLine(ProcessState, cfg, PipelineChain, Head(chLines).kind) :
       /\ HeapBecomes(r.s.h)
       /\ pfLineNum' = r.s.lineNum
       /\ stats' = r.s.stats
       /\ writer' = r.s.writer
       /\ plMatcher' = r.s.matcher
       /\ pfPc' = r.s.pc
       /\ pfErr' = r.s.err
       /\ recUse' = IF r.entry = NoEntry THEN recUse ELSE used(recUse, r.entry, r.s.ops)
  /\ UNCHANGED <<lateVars, matchVars, queryVars, chLinesClosed, plSent, ctxDone, plWorkers, wPc, wLine,
                 wCurrentLineNum, wEntry, sharedLineNum, lineNumMu, chResults, chResultsClosed,
                 plDelivered, plReleased, cfg, chErrs>>

\* the records of the parsers, in a pipeline of workers or in processFile
InitRecords == InitParallel \/ InitFile

NextRecords ==
  \/ \E kind \in LineKinds : PipelineFeed(kind)
  \/ \E text \in FileLines : ReadLine(text)
  \/ \E err \in {"err", "canceled"} : ReaderFails(err)
  \/ CloseLines
  \/ Cancel
  \/ Receive
  \/ \E w \in WorkerIds : WorkerStep(w)
  \/ CloseResults
  \/ FileSelectDone
  \/ FileSelectErr
  \/ FileSelectClosed
  \/ FileLine

SpecRecords == InitRecords /\ [][NextRecords]_vars

(***************************************************************************)
(* JSONParser.Parse on documents of nested mappings and arrays: data is    *)
(* what json.Unmarshal decoded                                             *)
(***************************************************************************)
\* items of an array
MaxItems == 1

FlatLeaves == {StrV(<<"x">>), StrV(<<"y">>)}

\* every mapping from some of keys to values
ObjectsOver(keys, values) ==
  {ObjectV(members) : members \in UNION {[chosen -> values] : chosen \in SUBSET keys}}

InnerObjects == ObjectsOver({<<"b">>, <<"c">>}, FlatLeaves)

\* arrays of strings and of mappings
Arrays ==
  {ArrayV(items) :
     items \in UNION {[1..n -> {StrV(<<"x">>), ObjectV(NoFields), ObjectV(<<"b">> :> StrV(<<"x">>))}] :
                        n \in 0..MaxItems}}

MiddleObjects == ObjectsOver({<<"b">>}, FlatLeaves \cup InnerObjects \cup Arrays)

\* the documents: under "a" up to three levels of mappings, and the key "a.b",
\* which spells the path of the member b of a
Documents ==
  {root.members : root \in ObjectsOver({<<"a">>, <<"a", ".", "b">>},
                                        FlatLeaves \cup MiddleObjects \cup Arrays)}

InitFlatten ==
  /\ MatchIdle
  /\ QueryIdle
  /\ PipelineIdle
  /\ EntriesIdle
  /\ HistoryIdle
  /\ ChunksIdle
  /\ ReaderIdle
  /\ flData \in Documents
  /\ flResult = NotFlattened

\* JSONParser.Parse after json.Unmarshal: flattenMap("", data, entry.Fields)
\* on the fields of the entry AcquireEntry returned, which are empty
ParseDocument ==
  /\ ~flResult.done
  /\ \E fields \in flattenMap(<<>>, flData, NoFields) :
       flResult' = [done |-> TRUE, fields |-> fields]
  /\ UNCHANGED <<numbered, writeCalls, chunkVars, readerVars, flData, matchVars, queryVars, pipeVars, entryVars>>

NextFlatten == ParseDocument

SpecFlatten == InitFlatten /\ [][NextFlatten]_vars

(***************************************************************************)
(* unnamed/part_005: the goroutine of StreamReader.ReadLines, its source   *)
(* and the consumer of its two channels                                    *)
(***************************************************************************)
\* lines the source holds
MaxReadLines == 2

\* what the steps of ReadLines and of its consumer leave alone
besideReader ==
  <<matchVars, queryVars, poolVars, recUse, numbered, writeCalls, flatVars, chunkVars, cfg,
    pfPc, pfLineNum, pfErr, stats, writer, plWorkers, wPc, wLine, wCurrentLineNum, wEntry,
    sharedLineNum, lineNumMu, chResults, chResultsClosed, plDelivered, plReleased, plMatcher>>

\* a read of a file returns; a read of standard input blocks until the
\* other end of it writes or closes
afterRead(source) == IF source = "stdin" THEN "idle" ELSE "ready"

\* lines, errs := reader.ReadLines(ctx, path): the goroutine is started
InitReader ==
  /\ MatchIdle
  /\ QueryIdle
  /\ PipelineIdle
  /\ EntriesIdle
  /\ HistoryIdle
  /\ FlatIdle
  /\ ChunksIdle
  /\ rdPc = "open"
  /\ rdSource \in {"file", "stdin"}
  /\ rdInput = afterRead(rdSource)
  /\ rdLine = NoLine
  /\ chErrsSent = 0
  /\ chErrsClosed = FALSE

\* the other end of standard input writes a line or closes
Supply ==
  /\ rdSource = "stdin"
  /\ rdInput = "idle"
  /\ rdPc \in {"scan", "select"}
  /\ rdInput' = "ready"
  /\ UNCHANGED <<besideReader, rdPc, rdSource, rdLine, chErrsSent, chErrsClosed, chErrs,
                 chLines, chLinesClosed, plSent, ctxDone>>

\* reader, cleanup, err := r.openReader(path) with err == nil
OpenReader ==
  /\ rdPc = "open"
  /\ rdPc' = "scan"
  /\ UNCHANGED <<besideReader, rdSource, rdInput, rdLine, chErrsSent, chErrsClosed, chErrs,
                 chLines, chLinesClosed, plSent, ctxDone>>

\* r.openReader(path) with err != nil: on to errs <- err
OpenFails ==
  /\ rdPc = "open"
  /\ rdSource = "file"
  /\ rdPc' = "err"
  /\ UNCHANGED <<besideReader, rdSource, rdInput, rdLine, chErrsSent, chErrsClosed, chErrs,
                 chLines, chLinesClosed, plSent, ctxDone>>

\* scanner.Scan() returns true: a line was read
ScanLine(kind) ==
  /\ rdPc = "scan"
  /\ rdInput = "ready"
  /\ Len(plSent) < MaxReadLines
  /\ rdLine' = [seq |-> Len(plSent) + 1, kind |-> kind]
  /\ rdInput' = afterRead(rdSource)
  /\ rdPc' = "select"
  /\ UNCHANGED <<besideReader, rdSource, chErrsSent, chErrsClosed, chErrs, chLines,
                 chLinesClosed, plSent, ctxDone>>

\* scanner.Scan() returns false at the end of the input; scanner.Err() is nil
ScanEnd ==
  /\ rdPc = "scan"
  /\ rdInput = "ready"
  /\ rdPc' = "return"
  /\ UNCHANGED <<besideReader, rdSource, rdInput, rdLine, chErrsSent, chErrsClosed, chErrs,
                 chLines, chLinesClosed, plSent, ctxDone>>

\* scanner.Scan() returns false on a read error: on to errs <- err
ScanFails ==
  /\ rdPc = "scan"
  /\ rdInput = "ready"
  /\ rdPc' = "err"
  /\ UNCHANGED <<besideReader, rdSource, rdInput, rdLine, chErrsSent, chErrsClosed, chErrs,
                 chLines, chLinesClosed, plSent, ctxDone>>

\* case lines <- scanner.Text()
SendLine ==
  /\ rdPc = "select"
  /\ Len(chLines) < LinesCap
  /\ chLines' = Append(chLines, rdLine)
  /\ plSent' = Append(plSent, rdLine)
  /\ rdLine' = NoLine
  /\ rdPc' = "scan"
  /\ UNCHANGED <<besideReader, rdSource, rdInput, chErrsSent, chErrsClosed, chErrs,
                 chLinesClosed, ctxDone>>

\* case <-ctx.Done(): on to errs <- ctx.Err()
SelectCancelled ==
  /\ rdPc = "select"
  /\ ctxDone
  /\ rdPc' = "canceled"
  /\ UNCHANGED <<besideReader, rdSource, rdInput, rdLine, chErrsSent, chErrsClosed, chErrs,
                 chLines, chLinesClosed, plSent, ctxDone>>

\* errs <- err or errs <- ctx.Err(): the channel of capacity 1 takes the
\* value when it holds none; then the goroutine returns
SendError ==
  /\ rdPc \in {"err", "canceled"}
  /\ chErrs = "none"
  /\ chErrs' = rdPc
  /\ chErrsSent' = chErrsSent + 1
  /\ rdPc' = "return"
  /\ UNCHANGED <<besideReader, rdSource, rdInput, rdLine, chErrsClosed, chLines,
                 chLinesClosed, plSent, ctxDone>>

\* the deferred calls: cleanup(), close(errs), close(lines)
ReaderReturns ==
  /\ rdPc = "return"
  /\ chErrsClosed' = TRUE
  /\ chLinesClosed' = TRUE
  /\ rdPc' = "done"
  /\ UNCHANGED <<besideReader, rdSource, rdInput, rdLine, chErrsSent, chErrs, chLines,
                 plSent, ctxDone>>

\* the consumer: line, ok := <-lines with ok
ConsumeLine ==
  /\ rdPc # "off"
  /\ Len(chLines) > 0
  /\ chLines' = Tail(chLines)
  /\ UNCHANGED <<besideReader, readerVars, chErrs, chLinesClosed, plSent, ctxDone>>

\* the consumer: err := <-errs with a value in the channel
ConsumeError ==
  /\ rdPc # "off"
  /\ chErrs # "none"
  /\ chErrs' = "none"
  /\ UNCHANGED <<besideReader, readerVars, chLines, chLinesClosed, plSent, ctxDone>>

\* one step of the goroutine of ReadLines
ReaderStep ==
  \/ OpenReader
  \/ OpenFails
  \/ \E kind \in LineKinds : ScanLine(kind)
  \/ ScanEnd
  \/ ScanFails
  \/ SendLine
  \/ SelectCancelled
  \/ SendError
  \/ ReaderReturns

NextReader ==
  \/ ReaderStep
  \/ Supply
  \/ Cancel
  \/ ConsumeLine
  \/ ConsumeError

SpecReader == InitReader /\ [][NextReader]_vars

\* the goroutine runs whenever it can take a step; nothing obliges the
\* consumer to receive, the context to be cancelled, or the other end of
\* standard input to write
SpecReaderFair == SpecReader /\ WF_vars(ReaderStep)

(***************************************************************************)
(* output.Writer under a sequence of Write calls, with and without a limit *)
(***************************************************************************)
\* Write calls on one Writer
MaxWrites == 4

\* the limits handed to SetLimit
MaxWriteLimit == 2

\* the entries written: Format gives the raw line
WriterEntries == {LogEntry(text, NoFields, 1) : text \in {<<"a">>, <<"w">>, <<"x">>}}

\* NewWriter, then SetLimit or not
InitWriter ==
  /\ MatchIdle
  /\ QueryIdle
  /\ PipelineIdle
  /\ PoolIdle
  /\ LateIdle
  /\ recUse = <<>>
  /\ cfg = [Invert |-> FALSE, Count |-> FALSE]
  /\ pfPc = "off"
  /\ pfLineNum = 0
  /\ pfErr = "none"
  /\ chErrs = "none"
  /\ stats = NewStats
  /\ writer \in {NewWriter} \cup {SetLimit(NewWriter, n) : n \in 0..MaxWriteLimit}

\* ok := writer.Write(entry)
WriteCall(entry) ==
  /\ Len(writeCalls) < MaxWrites
  /\ \E r \in {Write(writer, stats, entry)} :
       /\ writer' = r.w
       /\ stats' = r.stats
       /\ writeCalls' = Append(writeCalls, [entry |-> entry, ok |-> r.ok])
  /\ UNCHANGED <<numbered, restVars, matchVars, queryVars, pipeVars, poolVars, recUse, cfg, pfPc,
                 pfLineNum, pfErr, chErrs>>

NextWriter == \E entry \in WriterEntries : WriteCall(entry)

SpecWriter == InitWriter /\ [][NextWriter]_vars

(***************************************************************************)
(* Matcher.Match on chains of one or two conditions, over values of every  *)
(* kind, several calls on one Matcher                                      *)
(***************************************************************************)
\* Match calls on the Matcher
MaxEvaluations == 2

\* what a field holds and what a condition compares with
SampleValues ==
  { StrV(<<"a">>), StrV(<<"w">>), StrV(<<"W">>), StrV(<<"5">>), StrV(<<"1", "0">>),
    IntV(5), FloatV(10), NilV, BoolV(TRUE), MapV(<<"a">>, <<"a">>) }

\* records with the field f, without any field, and with another field only
SampleEntries ==
  {LogEntry(<<>>, (<<"f">> :> v), 1) : v \in SampleValues}
    \cup {LogEntry(<<>>, NoFields, 1), LogEntry(<<>>, (<<"g">> :> StrV(<<"a">>)), 1)}

WithIgnoreCase(cond, ignoreCase) == [cond EXCEPT !.IgnoreCase = ignoreCase]

\* the patterns "w" and "W", and "(w", which does not compile
SamplePatterns == {StrV(<<"w">>), StrV(<<"W">>), StrV(<<"(", "w">>)}

RegexConditions ==
  {WithIgnoreCase(NewCondition(<<"f">>, OpRegex, v), ic) : v \in SamplePatterns, ic \in BOOLEAN}

\* conditions that leave the Matcher as it is
ValueConditions ==
  {WithIgnoreCase(NewCondition(<<"f">>, op, v), ic) :
     op \in {OpEq, OpNe}, v \in SampleValues, ic \in BOOLEAN}
    \cup {NewCondition(<<"f">>, op, v) : op \in {OpGt, OpLt, OpGte, OpLte}, v \in SampleValues}
    \cup {WithIgnoreCase(NewCondition(<<"f">>, OpContains, v), ic) :
            v \in {StrV(<<"a">>), StrV(<<"w">>)}, ic \in BOOLEAN}
    \cup {NewCondition(<<"f">>, OpExists, NilV)}

ValueChains == {NewFilterChain(LogicAnd, <<c>>) : c \in ValueConditions}

\* a regex condition alone, and one followed by f?
RegexChains ==
  {NewFilterChain(LogicAnd, <<c>>) : c \in RegexConditions}
    \cup {NewFilterChain(logic, <<c, NewCondition(<<"f">>, OpExists, NilV)>>) :
            logic \in {LogicAnd, LogicOr}, c \in RegexConditions}

InitCondition ==
  /\ mtChain = NilChain
  /\ mtEntry = EntryA5
  /\ \E ignoreCase \in BOOLEAN :
       /\ mtMatcher = NewMatcher(ignoreCase)
       /\ mtBefore = NewMatcher(ignoreCase)
  /\ mtResult = FALSE
  /\ mtCalls = 0
  /\ QueryIdle
  /\ PipelineIdle
  /\ EntriesIdle
  /\ LateIdle

\* matcher.Match(entry, chain) on a chain built for the call
Evaluate(chain, entry) ==
  /\ mtChain' = chain
  /\ mtBefore' = [mtMatcher EXCEPT !.evaluated = <<>>]
  /\ \E r \in {Match(mtBefore', entry, chain)} :
       /\ mtMatcher' = r.m
       /\ mtResult' = r.res
  /\ mtEntry' = entry
  /\ mtCalls' = mtCalls + 1
  /\ UNCHANGED <<lateVars, entryVars, queryVars, pipeVars>>

\* a comparison of values, on the Matcher as NewMatcher returned it
EvaluateValue(chain, entry) ==
  /\ mtCalls = 0
  /\ Evaluate(chain, entry)

\* a regex condition, on the Matcher as the calls before left it
EvaluateRegex(chain, entry) ==
  /\ mtCalls < MaxEvaluations
  /\ Evaluate(chain, entry)

NextCondition ==
  \/ \E chain \in ValueChains, entry \in SampleEntries : EvaluateValue(chain, entry)
  \/ \E chain \in RegexChains, entry \in SampleEntries : EvaluateRegex(chain, entry)

SpecCondition == InitCondition /\ [][NextCondition]_vars

(***************************************************************************)
(* Claims about Matcher.Match (SpecMatch)                                  *)
(***************************************************************************)
\* what one condition, and one sub-chain, evaluate to on the last call's entry
CondHolds(cond) == evaluateCondition(mtBefore, mtEntry, cond).res

SubMatches(sub) == Match(mtBefore, mtEntry, sub).res

AllOf(conds, subs) ==
  /\ \A i \in 1..Len(conds) : CondHolds(conds[i])
  /\ \A j \in 1..Len(subs) : SubMatches(subs[j])

AnyOf(conds, subs) ==
  \/ \E i \in 1..Len(conds) : CondHolds(conds[i])
  \/ \E j \in 1..Len(subs) : SubMatches(subs[j])

\* C4: for a chain with at least one condition or sub-chain, Match returns
\* under AND whether every direct condition and every sub-chain matches, and
\* under OR whether at least one of them matches; an empty list of direct
\* conditions counts as true under AND and as false under OR.
C4_MatchFollowsLogic ==
  (mtCalls > 0 /\ ~mtChain.isNil /\ ChainSize(mtChain) > 0)
    => mtResult = IF mtChain.Logic = LogicAnd
                    THEN AllOf(mtChain.Conditions, mtChain.SubChains)
                    ELSE AnyOf(mtChain.Conditions, mtChain.SubChains)

\* C5: Match returns true for every record when the chain is nil or has
\* neither conditions nor sub-chains, whatever its logic.
C5_VacuousChainMatches ==
  (mtCalls > 0 /\ (mtChain.isNil \/ ChainSize(mtChain) = 0)) => mtResult = TRUE

C5_Witness ==
  /\ mtCalls > 0
  /\ ~mtChain.isNil
  /\ ChainSize(mtChain) = 0
  /\ mtChain.Logic = LogicOr
  /\ mtEntry = EntryW4
  /\ mtResult

\* the direct conditions that decide the node: false under AND, true under OR
Decides(i) == CondHolds(mtChain.Conditions[i]) = (mtChain.Logic = LogicOr)

FirstDecisive ==
  CHOOSE k \in 1..Len(mtChain.Conditions) : Decides(k) /\ \A j \in 1..(k - 1) : ~Decides(j)

PatternsOf(conds) == {toString(c.Value) : c \in {d \in conds : d.Operator = OpRegex}}

RegexPatterns(conds) == PatternsOf({conds[i] : i \in 1..Len(conds)})

RECURSIVE ChainConditions(_)
ChainConditions(chain) ==
  {chain.Conditions[i] : i \in 1..Len(chain.Conditions)}
    \cup UNION {ChainConditions(chain.SubChains[j]) : j \in 1..Len(chain.SubChains)}

SubChainConditions(chain) ==
  UNION {ChainConditions(chain.SubChains[j]) : j \in 1..Len(chain.SubChains)}

ShortCircuited ==
  /\ mtCalls > 0
  /\ ~mtChain.isNil
  /\ \E k \in 1..Len(mtChain.Conditions) : Decides(k)

\* C6: the direct conditions are evaluated in order up to the first one that
\* decides the node (false under AND, true under OR) and no further: whatever
\* is evaluated after it belongs to the sub-chains, and the regex cache gains
\* no pattern of a skipped condition.
C6_ShortCircuit ==
  ShortCircuited =>
    LET k == FirstDecisive
        evaluated == mtMatcher.evaluated
    IN /\ Len(evaluated) >= k
       /\ SubSeq(evaluated, 1, k) = SubSeq(mtChain.Conditions, 1, k)
       /\ \A i \in (k + 1)..Len(evaluated) : evaluated[i] \in SubChainConditions(mtChain)
       /\ DOMAIN mtMatcher.regexCache \subseteq
            (DOMAIN mtBefore.regexCache)
              \cup RegexPatterns(SubSeq(mtChain.Conditions, 1, k))
              \cup PatternsOf(SubChainConditions(mtChain))

\* a false condition under AND is followed by a regex condition, which is not
\* evaluated and whose pattern is not cached
C6_Witness ==
  /\ ShortCircuited
  /\ mtChain.Logic = LogicAnd
  /\ Len(mtChain.SubChains) = 0
  /\ FirstDecisive < Len(mtChain.Conditions)
  /\ mtChain.Conditions[Len(mtChain.Conditions)].Operator = OpRegex
  /\ mtMatcher.regexCache = EmptyCache
  /\ Len(mtMatcher.evaluated) = FirstDecisive

(***************************************************************************)
(* Claims about QueryParser.Parse (SpecParse)                               *)
(***************************************************************************)
Typed == SelectSeq(qTokens, LAMBDA t : t.kind # "space")

\* term (sep term)*, blanks aside: no parentheses
PlainQuery(toks) ==
  /\ Len(toks) % 2 = 1
  /\ \A i \in 1..Len(toks) : toks[i].kind = (IF i % 2 = 1 THEN "term" ELSE "sep")

\* the comma-separated groups of a plain query, each the texts of its
\* pipe-separated terms
RECURSIVE Groups(_)
Groups(toks) ==
  IF Len(toks) = 1
    THEN << <<toks[1].text>> >>
    ELSE LET rest == Groups(SubSeq(toks, 3, Len(toks))) IN
         IF toks[2].text = <<",">>
           THEN << <<toks[1].text>> >> \o rest
           ELSE << <<toks[1].text>> \o rest[1] >> \o Tail(rest)

\* the condition a term stands for, and whether it holds on the matched entry
TermCondition(text) == parseCondition(text, 0).cond

TermHolds(text) == evaluateCondition(NewMatcher(FALSE), mtEntry, TermCondition(text)).res

GroupHolds(group) == \E i \in 1..Len(group) : TermHolds(group[i])

\* C7: a query without parentheses, made of comma-separated groups of
\* pipe-separated conditions, parses, and the parsed chain matches a record
\* iff every group holds a condition that is true of the record.
C7_CommaAndPipeOr ==
  (qPc = "parsed" /\ PlainQuery(Typed)) =>
    /\ qParsed.err = ErrNil
    /\ mtCalls > 0 => (mtResult = \A g \in 1..Len(Groups(Typed)) : GroupHolds(Groups(Typed)[g]))

\* "A|B,C" on a record where A fails and B and C hold
C7_Witness ==
  /\ qPc = "parsed"
  /\ mtCalls > 0
  /\ PlainQuery(Typed)
  /\ Len(Typed) = 5
  /\ Typed[2].text = <<"|">>
  /\ Typed[4].text = <<",">>
  /\ ~TermHolds(Typed[1].text)
  /\ mtResult

OrChainOf(group) ==
  NewFilterChain(LogicOr, [i \in 1..Len(group) |-> TermCondition(group[i])])

\* C8: a successful Parse returns an AND chain; of a plain query, every
\* single-term group is one entry of the root's Conditions and every group
\* of two or more terms is one OR sub-chain of the root that holds the
\* group's terms in order and has no sub-chains, both in query order.
C8_RootIsAndOfGroups ==
  /\ (qPc = "parsed" /\ qParsed.err = ErrNil) =>
       (~qParsed.chain.isNil /\ qParsed.chain.Logic = LogicAnd)
  /\ (qPc = "parsed" /\ PlainQuery(Typed)) =>
       LET groups == Groups(Typed)
           single == SelectSeq(groups, LAMBDA g : Len(g) = 1)
           several == SelectSeq(groups, LAMBDA g : Len(g) > 1)
       IN /\ qParsed.chain.Conditions = [i \in 1..Len(single) |-> TermCondition(single[i][1])]
          /\ qParsed.chain.SubChains = [i \in 1..Len(several) |-> OrChainOf(several[i])]

\* "A,B|C": one direct condition and one OR sub-chain of two
C8_Witness ==
  /\ qPc = "parsed"
  /\ PlainQuery(Typed)
  /\ Len(Typed) = 5
  /\ Typed[2].text = <<",">>
  /\ Typed[4].text = <<"|">>
  /\ Len(qParsed.chain.Conditions) = 1
  /\ Len(qParsed.chain.SubChains) = 1
  /\ Len(qParsed.chain.SubChains[1].Conditions) = 2

\* the index of the ")" that closes the "(" at index i, 0 when there is none
RECURSIVE ClosingFrom(_, _, _)
ClosingFrom(toks, j, depth) ==
  IF j > Len(toks) THEN 0
  ELSE IF toks[j].kind = "open" THEN ClosingFrom(toks, j + 1, depth + 1)
  ELSE IF toks[j].kind = "close"
    THEN (IF depth = 1 THEN j ELSE ClosingFrom(toks, j + 1, depth - 1))
  ELSE ClosingFrom(toks, j + 1, depth)

FirstOpen == CHOOSE i \in 1..Len(qTokens) : qTokens[i].kind = "open" /\ \A j \in 1..(i - 1) : qTokens[j].kind # "open"

GroupClose == ClosingFrom(qTokens, FirstOpen + 1, 1)

GroupInner == SelectSeq(SubSeq(qTokens, FirstOpen + 1, GroupClose - 1), LAMBDA t : t.kind # "space")

\* the query holds a closed parenthesized group whose content starts with a
\* condition, and a separator, a blank, a ")" or nothing follows the group
HasGroup ==
  /\ \E i \in 1..Len(qTokens) : qTokens[i].kind = "open"
  /\ GroupClose # 0
  /\ Len(GroupInner) > 0
  /\ GroupInner[1].kind = "term"
  /\ GroupClose < Len(qTokens) => qTokens[GroupClose + 1].kind \in {"sep", "space", "close"}

\* the query with the group replaced by the first term of its content
GroupAsFirstTerm ==
  SubSeq(qTokens, 1, FirstOpen - 1) \o <<GroupInner[1]>> \o SubSeq(qTokens, GroupClose + 1, Len(qTokens))

C10_ParensGroupOr ==
  (/\ qPc = "parsed"
   /\ mtCalls > 0
   /\ Len(Typed) = 7
   /\ Typed[1] = OpenToken
   /\ Typed[2].kind = "term"
   /\ Typed[3].text = <<"|">>
   /\ Typed[4].kind = "term"
   /\ Typed[5] = CloseToken
   /\ Typed[6].text = <<",">>
   /\ Typed[7].kind = "term")
    => mtResult = ((TermHolds(Typed[2].text) \/ TermHolds(Typed[4].text)) /\ TermHolds(Typed[7].text))

(***************************************************************************)
(* Claims about the pipelines (SpecParallel, SpecParallelFair,             *)
(* SpecSequential)                                                         *)
(***************************************************************************)
Range(seq) == {seq[i] : i \in 1..Len(seq)}

\* every record a filter has produced: held for sending, in the results
\* channel, received by the consumer, or released
Produced ==
  {wEntry[w] : w \in {v \in WorkerIds : wPc[v] = "send"}}
    \cup Range(chResults) \cup Range(plDelivered) \cup plReleased

\* C1: in ParallelFilter.Filter, with any number of workers and under every
\* interleaving, the record produced for the k-th line delivered by the lines
\* channel carries LineNum = k.
C1_LineNumIsPosition == \A e \in Produced : e.LineNum = e.Raw.seq

LineParses(line) == ~parserParse(line, 0).err

LineMatches(line) ==
  LineParses(line) /\ Match(NewMatcher(FALSE), parserParse(line, 0).entry, PipelineChain).res

RawOf(entries) == {e.Raw : e \in entries}

\* the results channel is closed and drained
Drained == chResultsClosed /\ Len(chResults) = 0

\* every line sent has been taken, each matching line was delivered once and
\* each parsed line that does not match was released
Complete ==
  /\ chLinesClosed
  /\ Len(chLines) = 0
  /\ RawOf(Range(plDelivered)) = {l \in Range(plSent) : LineMatches(l)}
  /\ Len(plDelivered) = Cardinality(RawOf(Range(plDelivered)))
  /\ RawOf(plReleased) = {l \in Range(plSent) : LineParses(l) /\ ~LineMatches(l)}

OnlyMatchingForwarded ==
  /\ \A e \in Range(chResults) \cup Range(plDelivered) : LineMatches(e.Raw)
  /\ \A i, j \in 1..Len(plDelivered) : plDelivered[i].Raw = plDelivered[j].Raw => i = j
  /\ ~ctxDone => \A e \in plReleased : ~LineMatches(e.Raw)

\* C2: in ParallelFilter.Filter, when the lines channel is closed after
\* finitely many lines, the context is never cancelled and the consumer keeps
\* receiving, the results channel delivers exactly one record for every line
\* that parses and matches, none for a line that does not match (those are
\* released by the worker), and is then closed.
C2_DeliversMatchesThenCloses ==
  /\ [](OnlyMatchingForwarded /\ ((Drained /\ ~ctxDone) => Complete))
  /\ <>(ctxDone \/ (Drained /\ Complete))

\* two workers, a matching line and one that does not match, all done
C2_Witness ==
  /\ ~ctxDone
  /\ Drained
  /\ Complete
  /\ Len(plSent) = 2
  /\ Len(plDelivered) = 1
  /\ Cardinality(plReleased) = 1
  /\ plWorkers = 2

\* the records on their way to the consumer, oldest first
InFlight ==
  plDelivered \o chResults \o (IF wPc[1] = "send" THEN <<wEntry[1]>> ELSE <<>>)

\* C3: SequentialFilter.Filter numbers the lines in input order, the k-th
\* line received getting LineNum = k whether or not the lines before it
\* parsed, and emits the matched records in the order of their source lines.
C3_SequentialNumbersInOrder ==
  /\ \A e \in Produced : e.LineNum = e.Raw.seq
  /\ sharedLineNum = Len(plSent) - Len(chLines)
  /\ \A i, j \in 1..Len(InFlight) : i < j => InFlight[i].Raw.seq < InFlight[j].Raw.seq

\* a rejected line, then two matching lines, delivered as numbers 2 and 3
C3_Witness ==
  /\ Len(plSent) = 3
  /\ plSent[1].kind = "bad"
  /\ Len(plDelivered) = 2
  /\ plDelivered[1].LineNum = 2
  /\ plDelivered[2].LineNum = 3

(***************************************************************************)
(* Claims about the errors of QueryParser.Parse (SpecParse)                *)
(***************************************************************************)
\* C11: for every query that is empty or holds only whitespace, Parse fails
\* with ErrEmptyQuery and returns no filter.
C11_BlankQueryIsEmpty ==
  (qPc = "parsed" /\ Len(Typed) = 0) =>
    (qParsed.err = ErrEmptyQuery /\ qParsed.chain.isNil)

\* the query " "
C11_Witness ==
  /\ qPc = "parsed"
  /\ qTokens = <<SpaceToken>>
  /\ qParsed.err = ErrEmptyQuery

\* the "(" tokens that no ")" balances before the end of the query
Unclosed == {i \in 1..Len(qTokens) : qTokens[i].kind = "open" /\ ClosingFrom(qTokens, i + 1, 1) = 0}

FirstUnclosed == CHOOSE i \in Unclosed : \A j \in Unclosed : i <= j

\* the index of the last token before i that is not a blank, 0 when none
RECURSIVE LastTypedBefore(_)
LastTypedBefore(i) ==
  IF i <= 1 THEN 0
  ELSE IF qTokens[i - 1].kind # "space" THEN i - 1
  ELSE LastTypedBefore(i - 1)

\* what precedes the separator in front of the unclosed "("
BeforeUnclosed == Text(SubSeq(qTokens, 1, LastTypedBefore(FirstUnclosed) - 1))

\* the parser gets to the unclosed "(" as the start of a term: the query
\* starts with it, or a separator precedes it and what precedes the separator
\* parses to its end
ReachesUnclosed ==
  \/ LastTypedBefore(FirstUnclosed) = 0
  \/ /\ qTokens[LastTypedBefore(FirstUnclosed)].kind = "sep"
     /\ Parse(BeforeUnclosed).err = ErrNil
     /\ Parse(BeforeUnclosed).pos = Len(TrimSpace(BeforeUnclosed))

\* C12: when a term of the query starts with "(" and no ")" balances it
\* before the end of the input, Parse fails with ErrUnclosedParen and returns
\* no filter, whatever the content after the "(" is.
C12_UnclosedGroupFails ==
  (qPc = "parsed" /\ Unclosed # {} /\ ReachesUnclosed) =>
    (qParsed.err = ErrUnclosedParen /\ qParsed.chain.isNil)

\* a second term "(" followed by a separator, which no term can start with
C12_Witness ==
  /\ qPc = "parsed"
  /\ Unclosed # {}
  /\ ReachesUnclosed
  /\ FirstUnclosed > 1
  /\ FirstUnclosed < Len(qTokens)
  /\ qTokens[FirstUnclosed + 1].kind = "sep"
  /\ qParsed.err = ErrUnclosedParen

\* ---------------------------------------------------------------------------
\* Claims about single conditions and the regex cache (SpecCondition)
\* ---------------------------------------------------------------------------

\* the call that led to this state: its first condition and the field it reads
Called == mtCalls > 0 /\ ~mtChain.isNil

FirstCondition == mtChain.Conditions[1]

FieldPresent == FirstCondition.Field \in DOMAIN mtEntry.Fields

FieldValue == mtEntry.Fields[FirstCondition.Field]

SingleCondition == Called /\ Len(mtChain.Conditions) = 1 /\ Len(mtChain.SubChains) = 0

\* the call evaluated a regex condition on a present field
RegexEvaluated == Called /\ FirstCondition.Operator = OpRegex /\ FieldPresent

PatternText == toString(FirstCondition.Value)

RequestedFold == FirstCondition.IgnoreCase \/ mtBefore.ignoreCase

\* C13: the regex cache is keyed by pattern text only.  A call never replaces
\* an expression the cache held before it, and a regex condition whose pattern
\* text was cached before the call matches with that cached expression,
\* whatever case-sensitivity the condition or the Matcher requests.
C13_CacheKeyedByText ==
  Called =>
    /\ \A p \in DOMAIN mtBefore.regexCache :
         /\ p \in DOMAIN mtMatcher.regexCache
         /\ mtMatcher.regexCache[p] = mtBefore.regexCache[p]
    /\ (RegexEvaluated /\ SingleCondition /\ CacheHas(mtBefore.regexCache, PatternText)) =>
         mtResult = MatchString(mtBefore.regexCache[PatternText], toString(FieldValue))

\* a pattern compiled case-sensitively is matched again under a condition that
\* asks for case-insensitivity, and the answer is the case-sensitive one
C13_Witness ==
  /\ RegexEvaluated
  /\ SingleCondition
  /\ CacheHas(mtBefore.regexCache, PatternText)
  /\ ~mtBefore.regexCache[PatternText].fold
  /\ RequestedFold
  /\ ~mtResult
  /\ MatchString(RegexpCompile(PatternText, RequestedFold).re, toString(FieldValue))

\* the chain of the call with its first condition replaced by one that is
\* false for an ordinary reason: it compares a field the record lacks
OrdinaryFalse == NewCondition(<<"n", "o">>, OpEq, NilV)

WithOrdinaryFalse == [mtChain EXCEPT !.Conditions[1] = OrdinaryFalse]

CompileFails == RegexEvaluated /\ RegexpCompile(PatternText, RequestedFold).err

\* C14: a regex condition whose pattern fails to compile is false: Match
\* still answers a boolean, the cache is left as it was with no entry for the
\* pattern, and the chain gives the answer, and evaluates as many conditions,
\* as it does with an ordinary false condition in that place.
C14_CompileFailureIsFalse ==
  CompileFails =>
    /\ mtResult \in BOOLEAN
    /\ mtMatcher.regexCache = mtBefore.regexCache
    /\ ~CacheHas(mtMatcher.regexCache, PatternText)
    /\ SingleCondition => ~mtResult
    /\ mtResult = Match(mtBefore, mtEntry, WithOrdinaryFalse).res
    /\ Len(mtMatcher.evaluated) = Len(Match(mtBefore, mtEntry, WithOrdinaryFalse).m.evaluated)
    /\ Tail(mtMatcher.evaluated) = Tail(Match(mtBefore, mtEntry, WithOrdinaryFalse).m.evaluated)

\* under OR the condition after the failing pattern is evaluated and decides
C14_Witness ==
  /\ CompileFails
  /\ mtChain.Logic = LogicOr
  /\ Len(mtChain.Conditions) = 2
  /\ Len(mtMatcher.evaluated) = 2
  /\ mtResult
  /\ ~CacheHas(mtMatcher.regexCache, PatternText)

ExistsEvaluated == SingleCondition /\ FirstCondition.Operator = OpExists

\* C15: an Exists condition holds exactly when the field path is a key of the
\* record's fields, whatever value is stored under it.
C15_ExistsIsKeyPresence == ExistsEvaluated => (mtResult <=> FieldPresent)

\* the field is present with a nil value and Exists holds
C15_Witness == ExistsEvaluated /\ FieldPresent /\ FieldValue.t = "nil" /\ mtResult

\* Exists holds for a nested mapping, and fails for a record without the field
C15_WitnessMap == ExistsEvaluated /\ FieldPresent /\ FieldValue.t = "map" /\ mtResult

C15_WitnessAbsent == ExistsEvaluated /\ ~FieldPresent /\ ~mtResult

\* the comparison of the call: field value against condition value
Compared(op) == SingleCondition /\ FirstCondition.Operator = op /\ FieldPresent

\* the two string renderings are the same text, letter case ignored when the
\* condition or the Matcher asks for it
SameRendering ==
  IF RequestedFold
    THEN ToLower(toString(FieldValue)) = ToLower(toString(FirstCondition.Value))
    ELSE toString(FieldValue) = toString(FirstCondition.Value)

\* C16: on a present field, Eq holds exactly when the string renderings of
\* the field value and of the condition value are equal, compared without
\* regard to case iff the condition or the Matcher requests it; Ne holds
\* exactly when Eq does not.
C16_EqComparesRenderings ==
  /\ Compared(OpEq) => (mtResult <=> SameRendering)
  /\ Compared(OpNe) => (mtResult <=> ~SameRendering)
  /\ (Compared(OpEq) \/ Compared(OpNe)) =>
       (compareValues(mtBefore, FieldValue, [FirstCondition EXCEPT !.Operator = OpNe]).res
          <=> ~compareValues(mtBefore, FieldValue, [FirstCondition EXCEPT !.Operator = OpEq]).res)

\* the number 5 equals the string "5"
C16_Witness ==
  /\ Compared(OpEq)
  /\ FieldValue = IntV(5)
  /\ FirstCondition.Value = StrV(<<"5">>)
  /\ mtResult

\* letter case is ignored only on request
C16_WitnessFold ==
  /\ Compared(OpEq)
  /\ FieldValue = StrV(<<"W">>)
  /\ FirstCondition.Value = StrV(<<"w">>)
  /\ mtResult = RequestedFold
  /\ RequestedFold

\* what the same comparison answers under another operator
ResultOf(op) == compareValues(mtBefore, FieldValue, [FirstCondition EXCEPT !.Operator = op]).res

OrderingEvaluated ==
  Compared(OpGt) \/ Compared(OpLt) \/ Compared(OpGte) \/ Compared(OpLte)

BothCoerce == toFloat64(FieldValue).ok /\ toFloat64(FirstCondition.Value).ok

\* the field value is above (below) the condition value: as numbers when both
\* sides coerce, else as strings in byte order
Above ==
  IF BothCoerce
    THEN toFloat64(FieldValue).n > toFloat64(FirstCondition.Value).n
    ELSE StrLess(toString(FirstCondition.Value), toString(FieldValue))

Below ==
  IF BothCoerce
    THEN toFloat64(FieldValue).n < toFloat64(FirstCondition.Value).n
    ELSE StrLess(toString(FieldValue), toString(FirstCondition.Value))

CompareEqual == compare(FieldValue, FirstCondition.Value) = 0

ExactlyOne(a, b, c) == (a /\ ~b /\ ~c) \/ (~a /\ b /\ ~c) \/ (~a /\ ~b /\ c)

\* C17: on a present field, Gt, Lt, Gte and Lte compare as numbers when both
\* sides coerce to a number and otherwise compare the string renderings in
\* byte order; exactly one of Gt, Lt and compare-equal holds, Gte is the
\* negation of Lt and Lte is the negation of Gt.
C17_OrderingNumericThenString ==
  /\ Compared(OpGt) => (mtResult <=> Above)
  /\ Compared(OpLt) => (mtResult <=> Below)
  /\ Compared(OpGte) => (mtResult <=> ~Below)
  /\ Compared(OpLte) => (mtResult <=> ~Above)
  /\ OrderingEvaluated =>
       /\ ExactlyOne(ResultOf(OpGt), ResultOf(OpLt), CompareEqual)
       /\ ResultOf(OpGte) <=> ~ResultOf(OpLt)
       /\ ResultOf(OpLte) <=> ~ResultOf(OpGt)

\* the float 10 is above the string "5" as a number, although "10" is below
\* "5" as a string
C17_Witness ==
  /\ Compared(OpGt)
  /\ FieldValue = FloatV(10)
  /\ FirstCondition.Value = StrV(<<"5">>)
  /\ BothCoerce
  /\ StrLess(toString(FieldValue), toString(FirstCondition.Value))
  /\ mtResult

\* one side does not coerce and the strings decide: "10" is below "a"
C17_WitnessStrings ==
  /\ Compared(OpLt)
  /\ FieldValue = StrV(<<"1", "0">>)
  /\ FirstCondition.Value = StrV(<<"a">>)
  /\ ~BothCoerce
  /\ mtResult

\* ---------------------------------------------------------------------------
\* Claims about the LogEntry pool (SpecPool)
\* ---------------------------------------------------------------------------

\* C18: whatever AcquireEntry, mutations and ReleaseEntry came before, the
\* record AcquireEntry returns has Raw = "", no fields and LineNum = 0.
C18_AcquiredIsBlank ==
  acquired.id # NilId =>
    /\ acquired.entry.Raw = <<>>
    /\ DOMAIN acquired.entry.Fields = {}
    /\ acquired.entry.LineNum = 0

\* the record came out of the pool holding a line, a field and a line number,
\* after it had been released twice
C18_Witness ==
  /\ acquired.id # NilId
  /\ acquired.found.Raw # <<>>
  /\ DOMAIN acquired.found.Fields # {}
  /\ acquired.found.LineNum # 0
  /\ entryPool[acquired.id] > 0
  /\ acquired.entry = NewEntry

\* ---------------------------------------------------------------------------
\* Claims about the records of the parsers (SpecRecords)
\* ---------------------------------------------------------------------------

\* the records the parsers have returned so far
Obtained == DOMAIN recUse

GivenUp(ops) == {i \in 1..Len(ops) : ops[i] \in {"release", "send"}}

\* a worker still holds the record for its send on results
HeldForSend(entry) == \E w \in WorkerIds : wPc[w] = "send" /\ wEntry[w] = entry

Occurrences(seq, entry) == Cardinality({i \in 1..Len(seq) : seq[i] = entry})

RecordMatches(entry) == Match(NewMatcher(FALSE), entry, PipelineChain).res

\* C19: a record a parser returned is given up exactly once, by ReleaseEntry
\* or by the send on results, and that is the last thing its holder does with
\* it; until then it is parsed and matched (and written) only.  A worker
\* sends the record that matches and releases the one that does not, or the
\* one it cannot send any more; processFile releases on every path.  No
\* LogEntry lies in the pool twice, and a sent record is on its way to the
\* consumer once.
C19_GivenUpOnce ==
  /\ \A entry \in Obtained :
       /\ recUse[entry][1] = "parse"
       /\ IF HeldForSend(entry)
            THEN GivenUp(recUse[entry]) = {}
            ELSE GivenUp(recUse[entry]) = {Len(recUse[entry])}
       /\ \A i \in 1..Len(recUse[entry]) :
            i \notin GivenUp(recUse[entry]) => recUse[entry][i] \in {"parse", "match", "write"}
       /\ Occurrences(chResults \o plDelivered, entry)
            = IF recUse[entry][Len(recUse[entry])] = "send" THEN 1 ELSE 0
       /\ recUse[entry][Len(recUse[entry])] = "send" => RecordMatches(entry)
       /\ (plWorkers > 0 /\ recUse[entry][Len(recUse[entry])] = "release")
            => (~RecordMatches(entry) \/ ctxDone)
       /\ plWorkers = 0 => recUse[entry][Len(recUse[entry])] = "release"
  /\ \A i \in EntryIds : entryPool[i] <= 1

\* processFile wrote a record, found the limit reached, released the record
\* and returned
C19_Witness ==
  /\ pfPc = "returned"
  /\ pfErr = "nil"
  /\ writer.limit = writer.count
  /\ \E entry \in Obtained : recUse[entry] = <<"parse", "match", "write", "release">>
  /\ \E i \in EntryIds : entryPool[i] = 1

\* the other paths: no match, a match written below the limit, a match only
\* counted, a worker's send and a worker's two releases
C19_WitnessNoMatch ==
  /\ pfPc = "select"
  /\ \E entry \in Obtained : recUse[entry] = <<"parse", "match", "release">>

C19_WitnessWritten ==
  /\ pfPc = "select"
  /\ writer.limit < 0
  /\ Len(writer.out) = 2
  /\ \A entry \in Obtained : recUse[entry] = <<"parse", "match", "write", "release">>

C19_WitnessWorker ==
  /\ plWorkers > 0
  /\ \E entry \in Obtained : recUse[entry] = <<"parse", "match", "send">>
  /\ \E entry \in Obtained : recUse[entry] = <<"parse", "match", "release">> /\ RecordMatches(entry)

C19_WitnessWorkerNoMatch ==
  /\ plWorkers > 0
  /\ ~ctxDone
  /\ \E entry \in Obtained : recUse[entry] = <<"parse", "match", "send">>
  /\ \E entry \in Obtained : recUse[entry] = <<"parse", "match", "release">> /\ ~RecordMatches(entry)

\* the lines processFile has taken from the channel, in order
Processed == [i \in 1..pfLineNum |-> plSent[i].kind]

\* a malformed structured line: it starts with { and is not JSON
Malformed(text) == jsonCanParse(text) /\ ~jsonUnmarshal(TrimSpace(text)).ok

MalformedSoFar == {i \in 1..pfLineNum : Malformed(Processed[i])}

\* C20: processFile with the AutoParser skips a line that starts with { and
\* is not JSON: the line is neither matched nor written, each such line adds
\* one to the parse-error counter, and the lines after it are processed.
C20_MalformedLineSkipped ==
  pfPc # "off" =>
    /\ stats.ParseErrors = Cardinality(MalformedSoFar)
    /\ stats.TotalLines = pfLineNum
    /\ \A i \in MalformedSoFar :
         /\ \A entry \in Obtained : entry.LineNum # i
         /\ \A k \in 1..Len(writer.out) : writer.out[k] # TrimSpace(Processed[i])

\* the malformed line {l=a came back from the AutoParser as a record without
\* fields, was matched under -v and written, and no parse error was counted
C20_MalformedLineWritten ==
  /\ pfPc # "off"
  /\ MalformedSoFar # {}
  /\ stats.ParseErrors = 0
  /\ \E entry \in Obtained :
       /\ entry.LineNum \in MalformedSoFar
       /\ entry.Raw = LineMalformed
       /\ DOMAIN entry.Fields = {}
       /\ recUse[entry] = <<"parse", "match", "write", "release">>
  /\ \E k \in 1..Len(writer.out) : writer.out[k] = LineMalformed

\* C28: whatever the operator, a condition on a field path that is not a key
\* of the record's fields is false; field != value is false there, not true.
C28_AbsentFieldIsFalse == (SingleCondition /\ ~FieldPresent) => ~mtResult

\* a != condition on a record that lacks the field answered false
C28_Witness ==
  /\ SingleCondition
  /\ FirstCondition.Operator = OpNe
  /\ FirstCondition.Value = StrV(<<"a">>)
  /\ ~FieldPresent
  /\ DOMAIN mtEntry.Fields # {}
  /\ ~mtResult

\* every operator was tried on a record that lacks the field
C28_WitnessOperators ==
  /\ SingleCondition
  /\ ~FieldPresent
  /\ FirstCondition.Operator \in {OpGte, OpLte}
  /\ FirstCondition.Value = NilV

\* ---------------------------------------------------------------------------
\* Claims about the end of the query (SpecParse)
\* ---------------------------------------------------------------------------

\* what the grammar left unread of the trimmed query
Remaining == Len(TrimSpace(Text(qTokens))) - qParsed.pos

\* C29: Parse returns a filter only when the grammar has consumed the whole
\* trimmed query; with characters left after the last term it parsed, Parse
\* fails.
C29_WholeQueryConsumed ==
  (qPc = "parsed" /\ qParsed.err = ErrNil) => Remaining = 0

\* the query "l:a l:w" gave the filter of l:a alone
C29_PrefixAccepted ==
  /\ qPc = "parsed"
  /\ Text(qTokens) = <<"l", ":", "a", " ", "l", ":", "w">>
  /\ qParsed.err = ErrNil
  /\ ~qParsed.chain.isNil
  /\ Len(qParsed.chain.Conditions) = 1
  /\ Len(qParsed.chain.SubChains) = 0
  /\ Remaining > 0

\* C21: when the line source has put an I/O error on its error channel, the
\* return of processFile for that source returns that error, whichever ready
\* case its select takes; it does not end the source as a success.
C21_IOErrorReturned ==
  [][(pfPc = "select" /\ chErrs = "err" /\ pfPc' = "returned") => pfErr' = "err"]_vars
\* processFile returned nil while the I/O error was still on the error channel
C21_ErrorLost == pfPc = "returned" /\ pfErr = "nil" /\ chErrs = "err" /\ ~ctxDone

Numbers == {numbered[i] : i \in DOMAIN numbered}
\* C27: the line numbers the workers of Filter take from the counter under
\* lineNumMu are pairwise distinct, and once n lines have been numbered the
\* numbers taken are exactly 1..n.
C27_NumbersAreOneToN ==
  /\ \A i, j \in DOMAIN numbered : i # j => numbered[i] # numbered[j]
  /\ Numbers = 1..Len(numbered)
  /\ sharedLineNum = Len(numbered)
\* two workers hold a number each at the same time
C27_Witness ==
  /\ plWorkers >= 2
  /\ Len(numbered) = 2
  /\ wPc[1] = "work"
  /\ wPc[2] = "unlock"
  /\ wCurrentLineNum[1] = 1
  /\ wCurrentLineNum[2] = 2
  /\ wLine[1].seq = 2

(***************************************************************************)
(* Claims about output.Writer (SpecWriter)                                 *)
(***************************************************************************)
\* the Write calls that wrote: the first limit calls, or all without a limit
Writing == IF writer.limit < 0 \/ Len(writeCalls) < writer.limit
             THEN Len(writeCalls) ELSE writer.limit
C23_WitnessNoLimit ==
  /\ writer.limit = -1
  /\ Len(writeCalls) = 4
  /\ Len(writer.out) = 4

(***************************************************************************)
(* Claims about JSONParser.Parse and flattenMap (SpecFlatten)              *)
(***************************************************************************)
RECURSIVE NestedAt(_, _)
\* every value reached through mappings only, with its dot-path
NestedAt(prefix, data) ==
  UNION {{[path |-> fullKey(prefix, k), v |-> data[k]]}
           \cup (IF data[k].t = "object"
                   THEN NestedAt(fullKey(prefix, k), data[k].members) ELSE {}) :
         k \in DOMAIN data}
\* the mappings nested in the document, each with its dot-path
NestedMappings == {at \in NestedAt(<<>>, flData) : at.v.t = "object"}
\* the dot-paths that two values of the document share
Colliding ==
  {at.path : at \in {a \in NestedAt(<<>>, flData) :
                       \E b \in NestedAt(<<>>, flData) : b.path = a.path /\ b.v # a.v}}
\* the key is stored
Stored(key) == key \in DOMAIN flResult.fields
\* the key is stored with the value
StoredAs(key, v) == Stored(key) /\ flResult.fields[key] = v
\* the mapping is stored under its path, and each member that is not a mapping
\* under path.key
C24_Kept(at) ==
  /\ StoredAs(at.path, at.v)
  /\ \A k \in DOMAIN at.v.members :
       at.v.members[k].t # "object" => StoredAs(fullKey(at.path, k), at.v.members[k])
C24_WitnessColliding ==
  /\ flResult.done
  /\ flData = (<<"a">> :> ObjectV(<<"b">> :> StrV(<<"x">>))) @@ (<<"a", ".", "b">> :> StrV(<<"y">>))
  /\ flResult.fields[<<"a", ".", "b">>] = StrV(<<"y">>)

(***************************************************************************)
(* Claims about the workers of Filter, FilterChunks and SequentialFilter   *)
(* (SpecFilters)                                                           *)
(***************************************************************************)
\* the worker has returned
Returned(w) == wPc[w] = "done"
\* C22: a worker of Filter, of FilterChunks or of SequentialFilter.Filter that
\* has returned holds no record, and a record a worker obtained is never left
\* behind: it was sent or released, or a worker that is still running holds it
\* for its send; so the matched record that cancellation kept from results is
\* released before the worker returns.
C22_ExitHoldsNoRecord ==
  /\ \A w \in WorkerIds : Returned(w) => wEntry[w] = NoEntry
  /\ \A entry \in Obtained : GivenUp(recUse[entry]) # {} \/ HeldForSend(entry)
\* FilterChunks: cancelled at the send of a matching line that is not the last
\* of its chunk, the worker released the entry and returned
C22_Witness ==
  /\ plMode = "chunks"
  /\ ctxDone
  /\ \E w \in WorkerIds :
       /\ Returned(w)
       /\ wIndex[w] > 0
       /\ wIndex[w] < Len(wChunk[w])
       /\ \E entry \in plReleased :
            /\ entry.Raw = wChunk[w][wIndex[w]]
            /\ RecordMatches(entry)
            /\ recUse[entry] = <<"parse", "match", "release">>
\* the same in Filter
C22_WitnessLines ==
  /\ plMode = "lines"
  /\ ctxDone
  /\ \E w \in WorkerIds : Returned(w)
  /\ \E entry \in plReleased :
       RecordMatches(entry) /\ recUse[entry] = <<"parse", "match", "release">>
\* the same in SequentialFilter.Filter
C22_WitnessSequential ==
  /\ plMode = "sequential"
  /\ ctxDone
  /\ Returned(1)
  /\ \E entry \in plReleased :
       RecordMatches(entry) /\ recUse[entry] = <<"parse", "match", "release">>

\* C25: in Filter and FilterChunks results is closed only when every worker
\* has returned, it is closed once and stays closed, and nothing is sent on it
\* afterwards: no worker is left that could reach its send.
C25_ClosedOnceAfterWorkers ==
  /\ []((plMode # "sequential" /\ chResultsClosed) => \A w \in WorkerIds : wPc[w] \in {"off", "done"})
  /\ [][(plMode # "sequential" /\ chResultsClosed) =>
          /\ chResultsClosed'
          /\ wPc' = wPc
          /\ Len(chResults') <= Len(chResults)]_vars
\* FilterChunks with two workers that both sent a record, results closed
C25_Witness ==
  /\ plMode = "chunks"
  /\ plWorkers = 2
  /\ chResultsClosed
  /\ Len(plDelivered) + Len(chResults) = 2
  /\ \A w \in WorkerIds : Returned(w)
\* the same in Filter
C25_WitnessLines ==
  /\ plMode = "lines"
  /\ plWorkers = 2
  /\ chResultsClosed
  /\ Len(plDelivered) + Len(chResults) = 2

(***************************************************************************)
(* Claims about the goroutine of StreamReader.ReadLines (SpecReaderFair)   *)
(***************************************************************************)
\* both channels of ReadLines are closed
BothClosed == chLinesClosed /\ chErrsClosed
\* at most one value is sent on errs, and the channel is empty whenever the
\* goroutine is at a send on it
ErrorSendNeverBlocks ==
  /\ chErrsSent <= 1
  /\ rdPc \in {"err", "canceled"} => (chErrs = "none" /\ chErrsSent = 0)
\* C30: the goroutine of ReadLines sends at most one value on errs, whose
\* capacity of 1 then always has room for it, and once the context is
\* cancelled it eventually closes lines and errs, even when the consumer
\* receives no more and lines is full.
C30_OneErrorThenCloses == []ErrorSendNeverBlocks /\ (ctxDone ~> BothClosed)
\* the context is cancelled, lines is full and not received from, and the
\* goroutine is in a read of standard input that does not return
C30_BlockedInRead ==
  /\ rdSource = "stdin"
  /\ rdPc = "scan"
  /\ rdInput = "idle"
  /\ ctxDone
  /\ Len(chLines) = LinesCap
  /\ ~chLinesClosed
  /\ ~chErrsClosed
\* what holds of C30: one send on errs at most, and for a source whose reads
\* return the close of both channels after cancellation
C30_ClosesWhenReadsReturn ==
  []ErrorSendNeverBlocks /\ ((ctxDone /\ rdSource = "file") ~> BothClosed)
\* cancelled at the select with lines full: ctx.Err() sent, both channels closed
C30_CancelledWhileFull ==
  /\ rdPc = "done"
  /\ chErrs = "canceled"
  /\ Len(chLines) = LinesCap
  /\ BothClosed

====
